---- MODULE Spec2Model ----
(***************************************************************************)
(* A model of django-qr-code: the rendering options (QRCodeOptions), the   *)
(* URL signing and access control of the image view, and the view itself.  *)
(*                                                                         *)
(* Python values are tagged records, so that 10 and "10" are different     *)
(* values; a Python str is a sequence of one-character strings, so that    *)
(* str(), lower(), isdigit(), join and split are computed, not assumed.    *)
(***************************************************************************)
EXTENDS Integers, Sequences, FiniteSets, TLC

VARIABLES
    kwargs,        \* the keyword arguments of the last QRCodeOptions construction
    options,       \* its result: a QRCodeOptions value or a raised exception
    via,           \* how it is built: "QRCodeOptions" or "request"
    RANDOM_TOKEN,  \* serve._RANDOM_TOKEN, the random part of the tokens
    settings,      \* the Django settings the package reads
    process,       \* the number of the running process (a restart starts the next)
    tok,           \* a token: the options it is issued for and checked against
    decision,      \* a user and what the access policy answers for it
    url,           \* the arguments of make_qr_code_url and the URL it built
    http,          \* the last request to serve_qr_code_image and its response
    cache,         \* the page cache of QR_CODE_CACHE_ALIAS: responses by cache key
    call           \* the last call of a function of the package: arguments and result

optVars == <<kwargs, options, via>>
procVars == <<RANDOM_TOKEN, settings, process>>
viewVars == <<url, http, cache>>

vars == <<kwargs, options, via, RANDOM_TOKEN, settings, process, tok, decision,
          url, http, cache, call>>

-----------------------------------------------------------------------------
(* Python values *)

PyNone == [t |-> "None"]
PyInt(n) == [t |-> "int", n |-> n]
PyStr(s) == [t |-> "str", s |-> s]
PyBool(b) == [t |-> "bool", b |-> b]
\* a float with one decimal, held in tenths: 2.1 is PyFloat(21)
PyFloat(tenths) == [t |-> "float", f |-> tenths]
Raise(exc) == [t |-> "raise", exc |-> exc]

IsRaise(v) == v.t = "raise"

\* Python truthiness
Truthy(v) ==
    CASE v.t = "None" -> FALSE
      [] v.t = "bool" -> v.b
      [] v.t = "int" -> v.n # 0
      [] v.t = "float" -> v.f # 0
      [] v.t = "str" -> Len(v.s) > 0
      [] OTHER -> TRUE

-----------------------------------------------------------------------------
(* Strings *)

Digits == <<"0", "1", "2", "3", "4", "5", "6", "7", "8", "9">>
UpperCase == <<"A", "B", "C", "D", "E", "F", "G", "H", "I", "J", "K", "L", "M",
               "N", "O", "P", "Q", "R", "S", "T", "U", "V", "W", "X", "Y", "Z">>
LowerCase == <<"a", "b", "c", "d", "e", "f", "g", "h", "i", "j", "k", "l", "m",
               "n", "o", "p", "q", "r", "s", "t", "u", "v", "w", "x", "y", "z">>

IndexOf(seq, c) == CHOOSE i \in 1..Len(seq) : seq[i] = c
Has(seq, c) == \E i \in 1..Len(seq) : seq[i] = c

\* str.lower()
LowerChar(c) == IF Has(UpperCase, c) THEN LowerCase[IndexOf(UpperCase, c)] ELSE c
Lower(s) == [i \in 1..Len(s) |-> LowerChar(s[i])]

\* str.isdigit()
IsDigit(s) == Len(s) > 0 /\ \A i \in 1..Len(s) : Has(Digits, s[i])

RECURSIVE NatToStr(_)
NatToStr(n) ==
    IF n < 10 THEN <<Digits[n + 1]>>
    ELSE NatToStr(n \div 10) \o <<Digits[(n % 10) + 1]>>

RECURSIVE StrToNat(_)
StrToNat(s) ==
    IF Len(s) = 0 THEN 0
    ELSE 10 * StrToNat(SubSeq(s, 1, Len(s) - 1)) + (IndexOf(Digits, s[Len(s)]) - 1)

IntToStr(n) == IF n < 0 THEN <<"-">> \o NatToStr(0 - n) ELSE NatToStr(n)

\* int(s) for a str: an optional sign and digits, ValueError otherwise
IsIntLiteral(s) ==
    \/ IsDigit(s)
    \/ Len(s) > 1 /\ s[1] \in {"-", "+"} /\ IsDigit(Tail(s))
ParseInt(s) ==
    IF IsDigit(s) THEN StrToNat(s)
    ELSE IF s[1] = "-" THEN 0 - StrToNat(Tail(s)) ELSE StrToNat(Tail(s))

\* str(v)
PyStrOf(v) ==
    CASE v.t = "None" -> <<"N", "o", "n", "e">>
      [] v.t = "int" -> IntToStr(v.n)
      [] v.t = "str" -> v.s
      [] v.t = "bool" -> IF v.b THEN <<"T", "r", "u", "e">> ELSE <<"F", "a", "l", "s", "e">>
      [] v.t = "float" -> IntToStr(v.f \div 10) \o <<".">> \o <<Digits[(v.f % 10) + 1]>>


-----------------------------------------------------------------------------
(* String literals used by the program and by the inputs *)

s_empty == <<>>
s_m == <<"m">>
s_svg == <<"s", "v", "g">>
s_png == <<"p", "n", "g">>
s_utf8 == <<"u", "t", "f", "-", "8">>
s_black == <<"b", "l", "a", "c", "k">>
s_white == <<"w", "h", "i", "t", "e">>
s_abc == <<"a", "b", "c">>
s_None == <<"N", "o", "n", "e">>

-----------------------------------------------------------------------------
(* qr_code/qrcode/constants.py *)

SIZE_DICT == [k \in {"t", "s", "m", "l", "h"} |->
                CASE k = "t" -> 6 [] k = "s" -> 12 [] k = "m" -> 18
                  [] k = "l" -> 30 [] k = "h" -> 48]
DEFAULT_MODULE_SIZE == PyStr(s_m)
DEFAULT_BORDER_SIZE == PyInt(4)
DEFAULT_VERSION == PyNone
DEFAULT_IMAGE_FORMAT == PyStr(s_svg)
DEFAULT_ERROR_CORRECTION == PyStr(s_m)
DEFAULT_CACHE_ENABLED == TRUE
DEFAULT_URL_SIGNATURE_ENABLED == TRUE

-----------------------------------------------------------------------------
(* QRCodeOptions (qr_code/qrcode/utils.py) *)

ColorNames ==
    {"dark_color", "light_color", "finder_dark_color", "finder_light_color",
     "data_dark_color", "data_light_color", "version_dark_color",
     "version_light_color", "format_dark_color", "format_light_color",
     "alignment_dark_color", "alignment_light_color", "timing_dark_color",
     "timing_light_color", "separator_color", "dark_module_color",
     "quiet_zone_color"}

FlagNames == {"boost_error", "micro", "eci"}

OptionNames ==
    {"size", "border", "version", "image_format", "error_correction", "encoding"}
        \cup FlagNames \cup ColorNames

\* the defaults of the signature of __init__
DefaultArg(name) ==
    CASE name = "size" -> DEFAULT_MODULE_SIZE
      [] name = "border" -> PyInt(4)
      [] name = "version" -> PyNone
      [] name = "image_format" -> PyStr(s_svg)
      [] name = "error_correction" -> DEFAULT_ERROR_CORRECTION
      [] name = "encoding" -> PyStr(s_utf8)
      [] name = "boost_error" -> PyBool(TRUE)
      [] name = "micro" -> PyBool(FALSE)
      [] name = "eci" -> PyBool(FALSE)
      [] name = "dark_color" -> PyStr(s_black)
      [] name = "light_color" -> PyStr(s_white)
      [] OTHER -> PyBool(FALSE)

\* the strings the argument validation reads as booleans
BoolWords == [k \in {<<"0">>, <<"1">>, <<"t", "r", "u", "e">>, <<"f", "a", "l", "s", "e">>} |->
                k \in {<<"1">>, <<"t", "r", "u", "e">>}]

\* The conversion of one argument to the type its annotation declares
\* (@validate_call): the value, or a raise when it does not fit.
ValidateArg(name, v) ==
    CASE name = "border" ->
            IF v.t = "int" THEN v
            ELSE IF v.t = "str" /\ IsIntLiteral(v.s) THEN PyInt(ParseInt(v.s))
            ELSE IF v.t = "float" /\ v.f % 10 = 0 THEN PyInt(v.f \div 10)
            ELSE Raise("ValidationError")
      [] name \in FlagNames ->
            IF v.t = "bool" THEN v
            ELSE IF v.t = "int" /\ v.n \in {0, 1} THEN PyBool(v.n = 1)
            ELSE IF v.t = "str" /\ Lower(v.s) \in DOMAIN BoolWords
                 THEN PyBool(BoolWords[Lower(v.s)])
            ELSE Raise("ValidationError")
      [] name \in {"image_format", "error_correction"} ->
            IF v.t = "str" THEN v ELSE Raise("ValidationError")
      [] name = "encoding" ->
            IF v.t \in {"str", "None"} THEN v ELSE Raise("ValidationError")
      [] name = "size" ->
            IF v.t \in {"int", "float", "str", "None"} THEN v ELSE Raise("ValidationError")
      [] name = "version" ->
            IF v.t \in {"int", "str", "None"} THEN v ELSE Raise("ValidationError")
      [] OTHER ->
            IF v.t \in {"str", "bool", "None"} THEN v ELSE Raise("ValidationError")

\* @validate_call on __init__: an unknown argument name or a value that does
\* not fit the declared type raises; otherwise every argument, defaults filled in.
BoundArguments(arg) ==
    IF \E n \in OptionNames : IsRaise(arg[n]) THEN Raise("ValidationError")
    ELSE [t |-> "arguments", arg |-> arg]

validate_call(kw) ==
    IF \E n \in DOMAIN kw : n \notin OptionNames THEN Raise("ValidationError")
    ELSE BoundArguments([n \in OptionNames |->
                           IF n \in DOMAIN kw THEN ValidateArg(n, kw[n])
                           ELSE DefaultArg(n)])

_can_be_cast_to_int(value) ==
    value.t \in {"int", "bool"} \/ (value.t = "str" /\ IsDigit(value.s))

\* int(value), for a value _can_be_cast_to_int accepts
IntOf(value) ==
    CASE value.t = "int" -> value.n
      [] value.t = "bool" -> IF value.b THEN 1 ELSE 0
      [] value.t = "str" -> StrToNat(value.s)

MicroTags == {<<"m", "1">>, <<"m", "2">>, <<"m", "3">>, <<"m", "4">>,
              <<"M", "1">>, <<"M", "2">>, <<"M", "3">>, <<"M", "4">>}

IsMicroTag(version) == version.t = "str" /\ version.s \in MicroTags

\* __init__, the version and micro settings: <<self._version, self._micro>>
InitVersionMicroNoLower(version, micro) ==
    IF _can_be_cast_to_int(version)
    THEN <<IF 1 <= IntOf(version) /\ IntOf(version) <= 40
           THEN PyInt(IntOf(version)) ELSE PyNone, micro>>
    ELSE IF IsMicroTag(version) THEN <<version, PyBool(TRUE)>>
    ELSE <<PyNone, micro>>

InitVersionMicro(version, micro) ==
    IF _can_be_cast_to_int(version)
    THEN <<IF 1 <= IntOf(version) /\ IntOf(version) <= 40
           THEN PyInt(IntOf(version)) ELSE PyNone, micro>>
    ELSE IF IsMicroTag(version) THEN <<PyStr(Lower(version.s)), PyBool(TRUE)>>
    ELSE <<PyNone, micro>>

\* __init__, self._error_correction
InitErrorCorrection(error_correction) ==
    IF error_correction.t # "str" THEN DEFAULT_ERROR_CORRECTION
    ELSE IF Lower(error_correction.s) \in {<<"l">>, <<"m">>, <<"q">>, <<"h">>}
         THEN PyStr(Lower(error_correction.s))
         ELSE DEFAULT_ERROR_CORRECTION

\* __init__, self._image_format
InitImageFormat(image_format) ==
    IF image_format.t # "str" THEN DEFAULT_IMAGE_FORMAT
    ELSE IF Lower(image_format.s) \in {s_svg, s_png}
         THEN PyStr(Lower(image_format.s))
         ELSE DEFAULT_IMAGE_FORMAT

\* __init__, self._encoding
InitEncoding(encoding) == IF encoding = PyStr(s_empty) THEN PyNone ELSE encoding

\* the body of __init__: the object, vm being <<self._version, self._micro>>
InitObject(arg, vm) ==
    [t |-> "QRCodeOptions",
     size |-> arg["size"],
     border |-> PyInt(IntOf(arg["border"])),
     version |-> vm[1],
     micro |-> vm[2],
     eci |-> arg["eci"],
     error_correction |-> InitErrorCorrection(arg["error_correction"]),
     boost_error |-> arg["boost_error"],
     encoding |-> InitEncoding(arg["encoding"]),
     image_format |-> InitImageFormat(arg["image_format"]),
     colors |-> [c \in ColorNames |-> arg[c]]]

\* __init__ on the arguments as validated, or the exception of the validation
InitValidated(bound) ==
    IF IsRaise(bound) THEN bound
    ELSE InitObject(bound.arg, InitVersionMicro(bound.arg["version"], bound.arg["micro"]))

\* QRCodeOptions(**kw): the object, or the exception raised
QRCodeOptions(kw) == InitValidated(validate_call(kw))

\* QRCodeOptions.kw_make
kw_make(o) ==
    [version |-> o.version, error |-> o.error_correction, micro |-> o.micro,
     eci |-> o.eci, boost_error |-> o.boost_error, encoding |-> o.encoding]

\* QRCodeOptions.color_mapping: the colors that are not False
color_mapping(o) ==
    [c \in {n \in ColorNames : o.colors[n] # PyBool(FALSE)} |-> o.colors[c]]

\* QRCodeOptions._size_as_number
_size_as_number(o) ==
    LET size == o.size IN
    IF _can_be_cast_to_int(size)
    THEN IF IntOf(size) < 1 THEN PyInt(SIZE_DICT["m"]) ELSE PyInt(IntOf(size))
    ELSE IF size.t = "float"
    THEN IF size.f < 1 THEN PyInt(SIZE_DICT["m"]) ELSE size
    ELSE IF size.t = "str"
    THEN IF Len(size.s) = 1 /\ Lower(size.s)[1] \in DOMAIN SIZE_DICT
         THEN PyInt(SIZE_DICT[Lower(size.s)[1]])
         ELSE DEFAULT_MODULE_SIZE
    ELSE PyInt(SIZE_DICT["m"])


\* QRCodeOptions.kw_save, scale being self._size_as_number(): the keywords
\* given to the encoder's save(), or the exception raised (Decimal() of a
\* scale that is not a number)
SaveKeywords(o, scale) ==
    IF o.image_format = PyStr(s_svg)
    THEN IF scale.t = "str" THEN Raise("InvalidOperation")
         ELSE [t |-> "kw", border |-> o.border, kind |-> o.image_format, unit |-> "mm",
               scale |-> [t |-> "Decimal", of |-> scale, div |-> 10],
               colors |-> color_mapping(o)]
    ELSE [t |-> "kw", border |-> o.border, kind |-> o.image_format, unit |-> "",
          scale |-> scale, colors |-> color_mapping(o)]

kw_save(o) == SaveKeywords(o, _size_as_number(o))

-----------------------------------------------------------------------------
(* qr_code/views.py: the options of a request *)

\* int(request_query.get(name, 0)) == 1, or the ValueError of int()
QueryFlag(query, name) ==
    IF name \notin DOMAIN query THEN PyBool(FALSE)
    ELSE IF IsIntLiteral(query[name].s) THEN PyBool(ParseInt(query[name].s) = 1)
    ELSE Raise("ValueError")

\* get_qr_code_option_from_request, on request.GET.dict()
OptionsOfQuery(request_query) ==
    IF \E k \in FlagNames : IsRaise(request_query[k]) THEN Raise("ValueError")
    ELSE QRCodeOptions(request_query)

get_qr_code_option_from_request(GET) ==
    OptionsOfQuery(
        [k \in (DOMAIN GET \ {"bytes", "text", "int", "token", "cache_enabled"})
                  \cup FlagNames |->
            IF k \in FlagNames THEN QueryFlag(GET, k) ELSE GET[k]])


-----------------------------------------------------------------------------
(* Settings and users (qr_code/qrcode/serve.py) *)

\* the default of TOKEN_LENGTH
DefaultTokenLength == 20

s_default_salt == <<"qr_code_url_protection_salt">>

AnonymousUser == [t |-> "AnonymousUser", pk |-> PyNone, is_authenticated |-> FALSE]
User(pk) == [t |-> "User", pk |-> pk, is_authenticated |-> TRUE]

\* a callable policy: the function it computes on user objects
Callable(name, f) == [t |-> "callable", name |-> name, f |-> f]

Mapping(m) == [t |-> "Mapping", m |-> m]

_get_default_url_protection_options(st) ==
    [TOKEN_LENGTH |-> PyInt(DefaultTokenLength),
     SIGNING_KEY |-> PyStr(st.SECRET_KEY),
     SIGNING_SALT |-> PyStr(s_default_salt),
     ALLOWS_EXTERNAL_REQUESTS_FOR_REGISTERED_USER |-> PyBool(FALSE)]

\* the QR_CODE_URL_PROTECTION setting when it exists and is a mapping, else None
_get_url_protection_settings(st) ==
    IF st.QR_CODE_URL_PROTECTION.t = "Mapping" THEN st.QR_CODE_URL_PROTECTION ELSE PyNone

\* the defaults, updated with the mapping of the settings
get_url_protection_options(st) ==
    LET defaults == _get_default_url_protection_options(st)
        settings_options == _get_url_protection_settings(st)
    IN IF settings_options # PyNone THEN settings_options.m @@ defaults ELSE defaults

\* x and y, x or y: the operand Python returns
PyAnd(x, y) == IF Truthy(x) THEN y ELSE x
PyOr(x, y) == IF Truthy(x) THEN x ELSE y

\* _options_allow_external_request taking every authenticated user for registered
_options_allow_external_request_authenticated(url_protection_options, user) ==
    LET flag == url_protection_options["ALLOWS_EXTERNAL_REQUESTS_FOR_REGISTERED_USER"] IN
    IF flag.t = "callable" THEN PyBool(flag.f[PyOr(user, AnonymousUser)])
    ELSE IF flag = PyBool(TRUE)
    THEN IF ~Truthy(user) THEN user ELSE PyBool(user.is_authenticated)
    ELSE PyBool(FALSE)

_options_allow_external_request(url_protection_options, user) ==
    LET flag == url_protection_options["ALLOWS_EXTERNAL_REQUESTS_FOR_REGISTERED_USER"] IN
    IF flag.t = "callable" THEN PyBool(flag.f[PyOr(user, AnonymousUser)])
    ELSE IF flag = PyBool(TRUE)
    THEN IF ~Truthy(user) THEN user
         ELSE PyAnd(user.pk, PyBool(user.is_authenticated))
    ELSE PyBool(FALSE)

requires_url_protection_token(st, user) ==
    ~Truthy(_options_allow_external_request(get_url_protection_options(st), user))

allows_external_request_from_user(st, user) ==
    _options_allow_external_request(get_url_protection_options(st), user)

\* get_random_string(length): one of the strings of that length it may return
RandomChars == {"a", "b"}
get_random_string(length) == {[i \in 1..length |-> c] : c \in RandomChars}

\* the values _make_random_token() may return
_make_random_token(st) ==
    get_random_string(get_url_protection_options(st)["TOKEN_LENGTH"].n)

-----------------------------------------------------------------------------
(* Signer (django.core.signing), as serve.py and views.py use it *)

RECURSIVE Flat(_)
Flat(s) == IF s = <<>> THEN "" ELSE s[1] \o Flat(Tail(s))

\* The signature of value under key and salt: one opaque element, equal for
\* two signatures exactly when key, salt and value are equal.
Signature(key, salt, value) ==
    "hmac(" \o Flat(key) \o "," \o Flat(salt) \o "," \o Flat(value) \o ")"

\* Signer(key, salt).sign(value)
Sign(key, salt, value) == value \o <<":">> \o <<Signature(key, salt, value)>>

\* the last index of c in s at or before i
RECURSIVE LastIndexFrom(_, _, _)
LastIndexFrom(s, c, i) == IF s[i] = c THEN i ELSE LastIndexFrom(s, c, i - 1)

LastIndexOf(s, c) == LastIndexFrom(s, c, Len(s))

\* Signer(key, salt).unsign(signed): the value, or BadSignature
UnsignAt(key, salt, signed, i) ==
    IF SubSeq(signed, i + 1, Len(signed)) = <<Signature(key, salt, SubSeq(signed, 1, i - 1))>>
    THEN PyStr(SubSeq(signed, 1, i - 1))
    ELSE Raise("BadSignature")

Unsign(key, salt, signed) ==
    IF ~Has(signed, ":") THEN Raise("BadSignature")
    ELSE UnsignAt(key, salt, signed, LastIndexOf(signed, ":"))

\* sep.join(parts)
RECURSIVE Join(_, _)
Join(parts, sep) ==
    IF Len(parts) = 0 THEN <<>>
    ELSE IF Len(parts) = 1 THEN parts[1]
    ELSE parts[1] \o sep \o Join(Tail(parts), sep)

\* s.split(c)[-1], s.split(c)[0]
LastSegment(s, c) == IF Has(s, c) THEN SubSeq(s, LastIndexOf(s, c) + 1, Len(s)) ELSE s
FirstSegment(s, c) == IF Has(s, c) THEN SubSeq(s, 1, IndexOf(s, c) - 1) ELSE s

-----------------------------------------------------------------------------
(* The protection token (serve.py, views.py) *)

get_qr_url_protection_token_no_size(o, random_token) ==
    Join(<<PyStrOf(o.border), PyStrOf(PyOr(o.version, PyStr(s_empty))),
           PyStrOf(o.image_format), PyStrOf(o.error_correction), random_token>>, <<".">>)

\* a token that holds the micro flag as well
get_qr_url_protection_token_with_micro(o, random_token) ==
    Join(<<PyStrOf(o.size), PyStrOf(o.border), PyStrOf(PyOr(o.version, PyStr(s_empty))),
           PyStrOf(o.image_format), PyStrOf(o.error_correction), PyStrOf(o.micro),
           random_token>>, <<".">>)

get_qr_url_protection_token(o, random_token) ==
    Join(<<PyStrOf(o.size), PyStrOf(o.border), PyStrOf(PyOr(o.version, PyStr(s_empty))),
           PyStrOf(o.image_format), PyStrOf(o.error_correction), random_token>>, <<".">>)

\* Signer(key=..., salt=...).sign(value) under the options given
SignUnder(url_protection_options, value) ==
    Sign(url_protection_options["SIGNING_KEY"].s, url_protection_options["SIGNING_SALT"].s,
         value)

\* Signer(key=..., salt=...).unsign(token) under the options given
UnsignUnder(url_protection_options, token) ==
    Unsign(url_protection_options["SIGNING_KEY"].s, url_protection_options["SIGNING_SALT"].s,
           token)

get_qr_url_protection_signed_token(st, random, o) ==
    SignUnder(get_url_protection_options(st), get_qr_url_protection_token(o, random))

Granted == [t |-> "None"]
PermissionDenied(msg) == [t |-> "raise", exc |-> "PermissionDenied", msg |-> msg]

\* the check of the unsigned value with the random part read from the wrong end
MatchesQueryFirst(o, url_protection_string) ==
    IF IsRaise(url_protection_string)
    THEN PermissionDenied("Wrong token signature.")
    ELSE IF get_qr_url_protection_token(o, FirstSegment(url_protection_string.s, "."))
               # url_protection_string.s
         THEN PermissionDenied("Request query does not match protection token.")
         ELSE Granted

check_url_signature_token_first(st, random, o, token) ==
    MatchesQueryFirst(o, UnsignUnder(get_url_protection_options(st), token))

\* the check of the unsigned value against a given random token
MatchesQueryWith(o, url_protection_string, random) ==
    IF IsRaise(url_protection_string)
    THEN PermissionDenied("Wrong token signature.")
    ELSE IF get_qr_url_protection_token(o, random) # url_protection_string.s
         THEN PermissionDenied("Request query does not match protection token.")
         ELSE Granted

\* check_url_signature_token comparing with the random token of the process
check_url_signature_token_current(st, random, o, token) ==
    MatchesQueryWith(o, UnsignUnder(get_url_protection_options(st), token), random)

\* check_url_signature_token after unsign: BadSignature becomes
\* PermissionDenied, and the random token is read from the unsigned value
MatchesQuery(o, url_protection_string) ==
    IF IsRaise(url_protection_string)
    THEN PermissionDenied("Wrong token signature.")
    ELSE IF get_qr_url_protection_token(o, LastSegment(url_protection_string.s, "."))
               # url_protection_string.s
         THEN PermissionDenied("Request query does not match protection token.")
         ELSE Granted

\* check_url_signature_token(qr_code_options, token): None, or PermissionDenied.
\* random is _RANDOM_TOKEN, which the function does not read.
check_url_signature_token(st, random, o, token) ==
    MatchesQuery(o, UnsignUnder(get_url_protection_options(st), token))

-----------------------------------------------------------------------------
(* The arguments the constructions are tried on *)

\* how many keyword arguments (or query parameters) one construction is given
MaxArgs == 2

StrValues(S) == {PyStr(x) : x \in S}
IntValues(S) == {PyInt(x) : x \in S}

SizeNames ==
    {<<"t">>, <<"T">>, <<"s">>, <<"S">>, <<"m">>, <<"M">>, <<"l">>, <<"L">>, <<"h">>, <<"H">>}

SizeStrings ==
    SizeNames \cup {s_empty, <<"x">>, <<"x", "l">>, <<"6">>, <<"1", "0">>, <<"0">>,
                    <<"-", "1">>, <<"2", ".", "1">>, s_None}

VersionStrings ==
    {<<"-", "1">>, <<"0">>, <<"4", "1">>, s_abc, <<"1">>, <<"4", "0">>, <<"0", "2">>,
     <<"M", "1">>, <<"m", "1">>, <<"M", "4">>, <<"m", "4">>, <<"M", "5">>, <<"m", "0">>}

BorderStrings == {<<"2">>, <<"0">>, <<"-", "1">>, s_abc, s_empty}

FormatStrings == {s_svg, s_png, <<"S", "V", "G">>, <<"P", "N", "G">>, <<"g", "i", "f">>, s_empty}

ErrorCorrectionStrings ==
    {<<"l">>, <<"L">>, <<"m">>, <<"M">>, <<"q">>, <<"Q">>, <<"h">>, <<"H">>, <<"x">>, s_empty}

EncodingStrings == {s_utf8, s_empty, <<"l", "a", "t", "i", "n", "1">>}

FlagStrings == {<<"0">>, <<"1">>, <<"2">>, s_abc}

ColorStrings == {s_black, <<"r", "e", "d">>, s_None}

ArgNames ==
    {"size", "border", "version", "image_format", "error_correction", "encoding",
     "boost_error", "micro", "eci", "dark_color", "finder_dark_color", "foo"}

\* the values QRCodeOptions(...) is called with, by argument name
DirectInputs == [name \in ArgNames |->
    CASE name = "size" ->
            StrValues(SizeStrings) \cup IntValues({-1, 0, 1, 6, 8, 10})
                \cup {PyNone, PyFloat(21), PyFloat(0)}
      [] name = "border" -> IntValues({0, 1, 4, -1}) \cup StrValues(BorderStrings)
      [] name = "version" ->
            StrValues(VersionStrings) \cup IntValues({-1, 0, 1, 2, 40, 41}) \cup {PyNone}
      [] name = "image_format" -> StrValues(FormatStrings)
      [] name = "error_correction" -> StrValues(ErrorCorrectionStrings)
      [] name = "encoding" -> StrValues(EncodingStrings) \cup {PyNone}
      [] name \in FlagNames -> {PyBool(TRUE), PyBool(FALSE)}
      [] name \in ColorNames -> StrValues(ColorStrings) \cup {PyNone, PyBool(FALSE)}
      [] OTHER -> {PyStr(s_abc)}]

\* the values a query string carries, by parameter name: always strings
QueryInputs == [name \in ArgNames \cup {"token", "cache_enabled"} |->
    CASE name = "size" -> StrValues(SizeStrings)
      [] name = "border" -> StrValues(BorderStrings)
      [] name = "version" -> StrValues(VersionStrings)
      [] name = "image_format" -> StrValues(FormatStrings)
      [] name = "error_correction" -> StrValues(ErrorCorrectionStrings)
      [] name = "encoding" -> StrValues(EncodingStrings)
      [] name \in FlagNames -> StrValues(FlagStrings)
      [] name \in ColorNames -> StrValues(ColorStrings)
      [] OTHER -> {PyStr(s_abc)}]

ArgSets(names) == {D \in SUBSET names : Cardinality(D) <= MaxArgs}

\* every way to give each name of D one of the values inputs(name)
RECURSIVE Bindings(_, _)
Bindings(D, inputs) ==
    IF D = {} THEN {<<>>}
    ELSE LET n == CHOOSE n \in D : TRUE
         IN {(n :> v) @@ rest : v \in inputs[n], rest \in Bindings(D \ {n}, inputs)}

-----------------------------------------------------------------------------
(* The process: its settings and its random token *)

\* how many processes run one after the other
MaxProcesses == 2

NoToken == [t |-> "no token"]
Pending == [t |-> "pending"]

\* nothing asked of the policy, nothing built or served
NoDecision == decision = PyNone
NoView == url = PyNone /\ http = PyNone /\ cache = <<>>
NoCall == call = PyNone

s_secret_key == <<"django-secret-key">>
s_signing_key == <<"my-secret-signing-key">>
s_signing_salt == <<"my-signing-salt">>

UserObjects == {AnonymousUser, User(PyInt(1)), User(PyInt(2)), User(PyNone)}

\* the callables the tests install, and one that tells users apart
AllowNobody == Callable("lambda user: False", [u \in UserObjects |-> FALSE])
AllowAnybody == Callable("lambda user: True", [u \in UserObjects |-> TRUE])
AllowUser1 == Callable("lambda user: user.pk == 1", [u \in UserObjects |-> u.pk = PyInt(1)])

Policy(flag) == Mapping("ALLOWS_EXTERNAL_REQUESTS_FOR_REGISTERED_USER" :> flag)

\* values of QR_CODE_URL_PROTECTION that change the signing
SigningChoices ==
    {PyNone,
     Mapping("SIGNING_KEY" :> PyStr(s_signing_key)),
     Mapping("SIGNING_SALT" :> PyStr(s_signing_salt)),
     Mapping([TOKEN_LENGTH |-> PyInt(30),
              SIGNING_KEY |-> PyStr(s_signing_key),
              SIGNING_SALT |-> PyStr(s_signing_salt),
              ALLOWS_EXTERNAL_REQUESTS_FOR_REGISTERED_USER |-> PyBool(TRUE)])}

\* values of QR_CODE_URL_PROTECTION that change the policy
PolicyChoices ==
    {PyNone, PyStr(s_abc),
     Policy(PyBool(FALSE)), Policy(PyBool(TRUE)), Policy(PyInt(1)),
     Policy(AllowNobody), Policy(AllowAnybody), Policy(AllowUser1)}

SettingsWith(protection, alias) ==
    [SECRET_KEY |-> s_secret_key,
     QR_CODE_URL_PROTECTION |-> protection,
     QR_CODE_CACHE_ALIAS |-> alias]

\* module load: the settings are in place, the random token is drawn
InitProcess(protections) ==
    /\ \E p \in protections : settings = SettingsWith(p, PyNone)
    /\ RANDOM_TOKEN \in _make_random_token(settings)
    /\ process = 1

\* the process ends and the next one loads the module again
Restart ==
    /\ process < MaxProcesses
    /\ process' = process + 1
    /\ RANDOM_TOKEN' \in _make_random_token(settings)
    /\ UNCHANGED <<call, settings, optVars, tok, decision, viewVars>>

\* QR_CODE_URL_PROTECTION is given another value (override_settings)
ChangeSettings(protections) ==
    /\ \E p \in protections :
          /\ p # settings.QR_CODE_URL_PROTECTION
          /\ settings' = [settings EXCEPT !.QR_CODE_URL_PROTECTION = p]
    /\ UNCHANGED <<call, RANDOM_TOKEN, process, optVars, tok, decision, viewVars>>

-----------------------------------------------------------------------------
(* The specification of the constructions *)

\* the arguments are drawn here; the construction is the step
InitOptions ==
    \/ /\ via = "QRCodeOptions"
       /\ \E D \in ArgSets(ArgNames) : kwargs \in Bindings(D, DirectInputs)
       /\ options = Pending
       /\ InitProcess({PyNone}) /\ tok = NoToken /\ NoDecision /\ NoView /\ NoCall
    \/ /\ via = "request"
       /\ \E D \in ArgSets(ArgNames \cup {"token", "cache_enabled"}) :
            kwargs \in Bindings(D, QueryInputs)
       /\ options = Pending
       /\ InitProcess({PyNone}) /\ tok = NoToken /\ NoDecision /\ NoView /\ NoCall

\* QRCodeOptions(**kwargs)
Construct ==
    /\ via = "QRCodeOptions"
    /\ options = Pending
    /\ options' = QRCodeOptions(kwargs)
    /\ UNCHANGED <<call, kwargs, via, procVars, tok, decision, viewVars>>

\* get_qr_code_option_from_request(request), kwargs being request.GET
ConstructFromRequest ==
    /\ via = "request"
    /\ options = Pending
    /\ options' = get_qr_code_option_from_request(kwargs)
    /\ UNCHANGED <<call, kwargs, via, procVars, tok, decision, viewVars>>

NextOptions == Construct \/ ConstructFromRequest

SpecOptions == InitOptions /\ [][NextOptions]_vars


-----------------------------------------------------------------------------
(* The specification of the tokens: one is issued for the options A and  *)
(* checked, as received, against the options B.                          *)

TokenKwargs ==
    {<<>>,
     "size" :> PyInt(10), "size" :> PyStr(<<"1", "0">>), "size" :> PyInt(8),
     "size" :> PyFloat(21), "size" :> PyStr(<<"M">>),
     "border" :> PyInt(1), "version" :> PyInt(2),
     "image_format" :> PyStr(s_png), "error_correction" :> PyStr(<<"h">>),
     "micro" :> PyBool(TRUE)}

TokenOptions == {QRCodeOptions(kw) : kw \in TokenKwargs}

\* what may happen to a token between its issue and its check
Tampers == {"none", "padding", "substituted", "unsigned", "forged"}

SignedValue(token) == SubSeq(token, 1, LastIndexOf(token, ":") - 1)

\* the token received, for a token issued and the options B of the request
Received(tamper, token, B) ==
    LET value == SignedValue(token)
        wanted == get_qr_url_protection_token(B, LastSegment(value, "."))
    IN CASE tamper = "none" -> token
         [] tamper = "padding" -> <<"x">> \o token
         [] tamper = "substituted" -> wanted \o SubSeq(token, Len(value) + 1, Len(token))
         [] tamper = "unsigned" -> value
         [] tamper = "forged" -> Sign(<<"guessed-key">>, s_default_salt, wanted)

\* the process and the signing settings at a moment
Context ==
    [process |-> process, random |-> RANDOM_TOKEN,
     key |-> get_url_protection_options(settings)["SIGNING_KEY"],
     salt |-> get_url_protection_options(settings)["SIGNING_SALT"]]

InitToken ==
    /\ InitProcess(SigningChoices)
    /\ \E a \in TokenOptions, b \in TokenOptions, m \in Tampers :
          tok = [A |-> a, B |-> b, tamper |-> m, token |-> PyNone, issued |-> PyNone,
                 verdict |-> Pending, checked |-> PyNone]
    /\ kwargs = <<>> /\ options = Pending /\ via = "QRCodeOptions"
    /\ NoDecision /\ NoView /\ NoCall

\* token = get_qr_url_protection_signed_token(A)
IssueToken ==
    /\ tok.token = PyNone
    /\ tok' = [tok EXCEPT
                 !.token = PyStr(get_qr_url_protection_signed_token(settings, RANDOM_TOKEN, tok.A)),
                 !.issued = Context]
    /\ UNCHANGED <<call, procVars, optVars, decision, viewVars>>

\* check_url_signature_token(B, token as received)
CheckToken ==
    /\ tok.token # PyNone
    /\ tok.verdict = Pending
    /\ tok' = [tok EXCEPT
                 !.verdict = check_url_signature_token(settings, RANDOM_TOKEN, tok.B,
                                                       Received(tok.tamper, tok.token.s, tok.B)),
                 !.checked = Context]
    /\ UNCHANGED <<call, procVars, optVars, decision, viewVars>>

\* between the issue and the check the process may restart and the signing
\* settings may change; the check ends the scenario
Unchecked == tok.verdict = Pending

NextToken ==
    \/ IssueToken
    \/ CheckToken
    \/ Unchecked /\ Restart
    \/ Unchecked /\ ChangeSettings(SigningChoices)

SpecToken == InitToken /\ [][NextToken]_vars

-----------------------------------------------------------------------------
(* Bytes, UTF-8 and base64, as serve.py and views.py use them *)

PyBytes(b) == [t |-> "bytes", b |-> b]

Punctuation == <<"\n", " ", "!", "+", "-", ".", "/", ":", "=">>
PunctuationCodes == <<10, 32, 33, 43, 45, 46, 47, 58, 61>>

KnownChars ==
    {UpperCase[i] : i \in 1..26} \cup {LowerCase[i] : i \in 1..26}
        \cup {Digits[i] : i \in 1..10} \cup {Punctuation[i] : i \in 1..Len(Punctuation)}

\* ord(c)
Ord(c) ==
    IF Has(UpperCase, c) THEN 64 + IndexOf(UpperCase, c)
    ELSE IF Has(LowerCase, c) THEN 96 + IndexOf(LowerCase, c)
    ELSE IF Has(Digits, c) THEN 47 + IndexOf(Digits, c)
    ELSE PunctuationCodes[IndexOf(Punctuation, c)]

\* chr(b), for the code of a known character
Chr(b) == CHOOSE c \in KnownChars : Ord(c) = b

\* s.encode('utf-8'), for ASCII text: one byte per character
EncodeUtf8(s) == [i \in 1..Len(s) |-> Ord(s[i])]

\* b.decode("utf-8"): the text, or UnicodeDecodeError for a byte over 127
\* that no multi-byte sequence holds
DecodeUtf8(b) ==
    IF \E i \in 1..Len(b) : b[i] > 127 THEN Raise("UnicodeDecodeError")
    ELSE PyStr([i \in 1..Len(b) |-> Chr(b[i])])

B64Chars == UpperCase \o LowerCase \o Digits \o <<"+", "/">>

\* base64.b64encode(b), as text
RECURSIVE b64encode(_)
b64encode(b) ==
    IF Len(b) = 0 THEN <<>>
    ELSE LET n == IF Len(b) >= 3 THEN 3 ELSE Len(b)
             v == b[1] * 65536 + (IF n >= 2 THEN b[2] * 256 ELSE 0)
                    + (IF n = 3 THEN b[3] ELSE 0)
             head == <<B64Chars[(v \div 262144) + 1],
                       B64Chars[((v \div 4096) % 64) + 1],
                       IF n >= 2 THEN B64Chars[((v \div 64) % 64) + 1] ELSE "=",
                       IF n = 3 THEN B64Chars[(v % 64) + 1] ELSE "=">>
         IN head \o b64encode(SubSeq(b, n + 1, Len(b)))

B64Value(c) == IF c = "=" THEN 0 ELSE IndexOf(B64Chars, c) - 1

\* the bytes of groups of four base64 characters
RECURSIVE B64DecodeGroups(_)
B64DecodeGroups(s) ==
    IF Len(s) = 0 THEN <<>>
    ELSE LET v == B64Value(s[1]) * 262144 + B64Value(s[2]) * 4096
                    + B64Value(s[3]) * 64 + B64Value(s[4])
             three == <<v \div 65536, (v \div 256) % 256, v % 256>>
             n == IF s[3] = "=" THEN 1 ELSE IF s[4] = "=" THEN 2 ELSE 3
         IN SubSeq(three, 1, n) \o B64DecodeGroups(SubSeq(s, 5, Len(s)))

IsB64Char(c) == Has(B64Chars, c) \/ c = "="

\* the bytes of kept, whose characters other than the padding are data
B64DecodeKept(kept, data) ==
    IF Len(kept) % 4 # 0 \/ Len(kept) - Len(data) > 2
       \/ SubSeq(kept, 1, Len(data)) # data
    THEN Raise("binascii.Error")
    ELSE PyBytes(B64DecodeGroups(kept))

\* characters that are not ASCII: one element each, named by its code point
NonAsciiChars == {"U+00E9"}

\* base64.b64decode(s) of a str: ValueError if s does not encode to ASCII;
\* characters outside the alphabet are discarded, then the length must be a
\* multiple of four with the padding at the end
b64decode(s) ==
    IF \E i \in 1..Len(s) : s[i] \in NonAsciiChars THEN Raise("ValueError")
    ELSE B64DecodeKept(SelectSeq(s, IsB64Char),
                       SelectSeq(s, LAMBDA c : Has(B64Chars, c)))

-----------------------------------------------------------------------------
(* The URL of the image (qr_code/qrcode/serve.py) *)

PlainOptionNames == {"size", "border", "version", "image_format", "error_correction"}

\* the defaults make_qr_code_url compares the options with
UrlDefault(n) ==
    CASE n = "size" -> DEFAULT_MODULE_SIZE
      [] n = "border" -> DEFAULT_BORDER_SIZE
      [] n = "version" -> DEFAULT_VERSION
      [] n = "image_format" -> DEFAULT_IMAGE_FORMAT
      [] n = "error_correction" -> DEFAULT_ERROR_CORRECTION

\* force_str(data)
force_str(data) == IF data.t = "bytes" THEN DecodeUtf8(data.b).s ELSE PyStrOf(data)

\* urllib.parse.urlencode(params), read back as request.GET: each value is
\* the text str() gives it
urlencode(params) == [n \in DOMAIN params |-> PyStr(PyStrOf(params[n]))]

\* the query make_qr_code_url builds for the options o, signed and cached
\* being what url_signature_enabled and cache_enabled come to
UrlQuery(st, random, data, o, force_text, cached, signed) ==
    LET cache_enabled_arg == "cache_enabled" :> PyInt(IF cached THEN 1 ELSE 0)
        payload ==
            IF force_text THEN "text" :> PyStr(b64encode(EncodeUtf8(force_str(data))))
            ELSE IF data.t \in {"int", "bool"} THEN "int" :> data
            ELSE IF data.t = "str" THEN "bytes" :> PyStr(b64encode(EncodeUtf8(force_str(data))))
            ELSE "bytes" :> PyStr(b64encode(data.b))
        plain == [n \in {m \in PlainOptionNames : o[m] # UrlDefault(m)} |-> o[n]]
        flags == [n \in {m \in FlagNames : Truthy(o[m])} |-> PyInt(1)]
        encoding == "encoding" :> (IF Truthy(o.encoding) THEN o.encoding ELSE PyStr(s_empty))
        token == IF signed
                 THEN "token" :> PyStr(get_qr_url_protection_signed_token(st, random, o))
                 ELSE <<>>
    IN urlencode(token @@ color_mapping(o) @@ encoding @@ flags @@ plain
                    @@ cache_enabled_arg @@ payload)

\* make_qr_code_url: the query of the URL built. cache_enabled and
\* url_signature_enabled are None or a bool.
make_qr_code_url(st, random, data, qr_code_options, force_text, cache_enabled, url_signature_enabled) ==
    UrlQuery(st, random, data,
             IF qr_code_options = PyNone THEN QRCodeOptions(<<>>) ELSE qr_code_options,
             force_text,
             IF cache_enabled = PyNone THEN DEFAULT_CACHE_ENABLED ELSE cache_enabled.b,
             IF url_signature_enabled = PyNone
             THEN DEFAULT_URL_SIGNATURE_ENABLED ELSE url_signature_enabled.b)

-----------------------------------------------------------------------------
(* The image view (qr_code/qrcode/maker.py, qr_code/views.py) *)

SuspiciousOperation(msg) == [t |-> "raise", exc |-> "SuspiciousOperation", msg |-> msg]

HttpResponse(status, content, by) ==
    [t |-> "HttpResponse", status |-> status, content |-> content, by |-> by]

\* the image the encoder makes of the data under kw_make() and saves under
\* the keywords kw; the encoder does not take a scale that is no number
SavedImage(data, o, force_text, kw) ==
    IF IsRaise(kw) THEN kw
    ELSE IF kw.scale.t = "str" THEN Raise("TypeError")
    ELSE [t |-> "image", data |-> IF force_text THEN PyStr(force_str(data)) ELSE data,
          make |-> kw_make(o), save |-> kw]

\* make_qr_code_image: the image, or the exception raised
make_qr_code_image(data, o, force_text) == SavedImage(data, o, force_text, kw_save(o))

\* check_image_access_permission(request, qr_code_options)
check_image_access_permission(st, random, request, o) ==
    LET token == IF "token" \in DOMAIN request.GET THEN request.GET["token"]
                 ELSE PyStr(s_empty)
    IN IF Truthy(token) THEN check_url_signature_token(st, random, o, token.s)
       ELSE IF ~Truthy(allows_external_request_from_user(st, request.user))
            THEN PermissionDenied("You are not allowed to access this QR code.")
            ELSE Granted

\* the view on what base64.b64decode gives for "bytes"
BytesData(data) ==
    IF IsRaise(data)
    THEN IF data.exc = "binascii.Error"
         THEN SuspiciousOperation("Invalid base64 encoded data.") ELSE data
    ELSE [t |-> "data", data |-> data, force_text |-> FALSE]

\* the view on what decode("utf-8") gives for "text"
TextData(data) ==
    IF IsRaise(data) THEN SuspiciousOperation("Invalid UTF-8 encoded text.")
    ELSE [t |-> "data", data |-> data, force_text |-> TRUE]

\* the view on what base64.b64decode gives for "text"
TextBytes(bytes) ==
    IF IsRaise(bytes)
    THEN IF bytes.exc = "binascii.Error"
         THEN SuspiciousOperation("Invalid base64 encoded text.") ELSE bytes
    ELSE TextData(DecodeUtf8(bytes.b))

\* the data of the request, as the view decodes it, and force_text
RequestData(GET) ==
    IF "bytes" \in DOMAIN GET THEN BytesData(b64decode(GET["bytes"].s))
    ELSE IF "int" \in DOMAIN GET
    THEN IF IsIntLiteral(GET["int"].s)
         THEN [t |-> "data", data |-> PyInt(ParseInt(GET["int"].s)), force_text |-> FALSE]
         ELSE SuspiciousOperation("Invalid integer value.")
    ELSE TextBytes(b64decode(IF "text" \in DOMAIN GET THEN GET["text"].s ELSE s_empty))

\* the end of the view: the response for the image made
ImageResponse(img) == IF IsRaise(img) THEN img ELSE HttpResponse(200, img, "view")

\* the view once the data is decoded
ViewOfData(decoded, qr_code_options) ==
    IF IsRaise(decoded) THEN decoded
    ELSE ImageResponse(make_qr_code_image(decoded.data, qr_code_options, decoded.force_text))

\* the view once the access is checked
ViewOfAccess(access, request, qr_code_options) ==
    IF IsRaise(access) THEN access
    ELSE ViewOfData(RequestData(request.GET), qr_code_options)

\* the view once the options are read
ViewOfOptions(st, random, request, qr_code_options) ==
    IF IsRaise(qr_code_options) THEN qr_code_options
    ELSE ViewOfAccess(check_image_access_permission(st, random, request, qr_code_options),
                      request, qr_code_options)

\* the body of serve_qr_code_image: the response, or the exception raised
serve_qr_code_image(st, random, request) ==
    ViewOfOptions(st, random, request, get_qr_code_option_from_request(request.GET))

\* the key cache_page stores a response under: the key prefix and the URL
CacheKey(request) ==
    LET signed == IF "url_signature_enabled" \in DOMAIN request.GET
                     /\ Truthy(request.GET["url_signature_enabled"])
                  THEN request.GET["url_signature_enabled"]
                  ELSE PyBool(DEFAULT_URL_SIGNATURE_ENABLED)
    IN [key_prefix |-> <<signed, request.user.pk>>, query |-> request.GET]

\* how many responses the cache holds
MaxCached == 1

\* the cache after a response that was not found in it: a 200 is stored
UpdateCache(stored, key, response) ==
    IF ~IsRaise(response) /\ response.status = 200
       /\ Cardinality(DOMAIN stored) < MaxCached
    THEN <<response, (key :> response) @@ stored>>
    ELSE <<response, stored>>

\* the cache looked up under key: a stored response is returned as it is
FetchFromCache(st, random, stored, request, key) ==
    IF key \in DOMAIN stored
    THEN <<[stored[key] EXCEPT !.by = "cache"], stored>>
    ELSE UpdateCache(stored, key, serve_qr_code_image(st, random, request))

\* cache_page(...)(view_func)(request)
cache_page(st, random, stored, request) ==
    FetchFromCache(st, random, stored, request, CacheKey(request))

\* @cache_qr_code(): <<the response or the exception, the cache afterwards>>
cache_qr_code(st, random, stored, request) ==
    LET flag == IF "cache_enabled" \in DOMAIN request.GET
                THEN request.GET["cache_enabled"] ELSE PyStr(<<"1">>)
    IN IF ~IsIntLiteral(flag.s) THEN <<Raise("ValueError"), stored>>
       ELSE IF ParseInt(flag.s) = 1 /\ Truthy(st.QR_CODE_CACHE_ALIAS)
            THEN cache_page(st, random, stored, request)
            ELSE <<serve_qr_code_image(st, random, request), stored>>

\* constants.QR_CODE_GENERATION_VERSION_DATE, as yyyymmdd
QR_CODE_GENERATION_VERSION_DATE == 20200908

s_path == <<"/qr_code/images/serve-qr-code-image/">>

qr_code_etag(request) ==
    [path |-> s_path, query |-> request.GET, version |-> QR_CODE_GENERATION_VERSION_DATE]

qr_code_last_modified(request) == QR_CODE_GENERATION_VERSION_DATE

\* @condition(etag_func, last_modified_func): a request whose If-None-Match
\* names the ETag, or (without If-None-Match) whose If-Modified-Since is not
\* before the last modification, is answered 304 and the view is not called
condition(st, random, stored, request) ==
    LET if_none_match == request.headers.if_none_match
        if_modified_since == request.headers.if_modified_since
        not_modified ==
            IF if_none_match # PyNone THEN if_none_match = qr_code_etag(request)
            ELSE if_modified_since # PyNone
                    /\ qr_code_last_modified(request) <= if_modified_since.n
    IN IF not_modified THEN <<HttpResponse(304, PyNone, "condition"), stored>>
       ELSE cache_qr_code(st, random, stored, request)

\* the response the handler of Django gives for what the view returns or raises
Respond(result) ==
    IF ~IsRaise(result) THEN result
    ELSE HttpResponse(CASE result.exc = "PermissionDenied" -> 403
                        [] result.exc = "SuspiciousOperation" -> 400
                        [] OTHER -> 500,
                      result, "exception")

-----------------------------------------------------------------------------
(* The specification of the access policy: one user is asked about *)

PolicyUsers == UserObjects \cup {PyNone}

InitPolicy ==
    /\ InitProcess(PolicyChoices \cup SigningChoices)
    /\ \E u \in PolicyUsers :
          decision = [user |-> u, allows |-> Pending, requires |-> Pending]
    /\ kwargs = <<>> /\ options = Pending /\ via = "QRCodeOptions"
    /\ tok = NoToken /\ NoView /\ NoCall

\* allows_external_request_from_user(user), requires_url_protection_token(user)
Decide ==
    /\ decision # PyNone
    /\ decision.allows = Pending
    /\ decision' =
          [decision EXCEPT
             !.allows = allows_external_request_from_user(settings, decision.user),
             !.requires = PyBool(requires_url_protection_token(settings, decision.user))]
    /\ UNCHANGED <<call, procVars, optVars, tok, viewVars>>

NextPolicy == Decide

SpecPolicy == InitPolicy /\ [][NextPolicy]_vars

-----------------------------------------------------------------------------
(* The specification of the view: a URL is built by make_qr_code_url, and  *)
(* requests made from it are served, while the access policy changes and   *)
(* the process restarts.                                                   *)

s_hi == <<"h", "i">>

\* the calls of make_qr_code_url
UrlArguments ==
    {[data |-> PyStr(s_hi), kw |-> <<>>, force_text |-> TRUE,
      cache_enabled |-> PyNone, url_signature_enabled |-> PyNone],
     [data |-> PyStr(s_hi), kw |-> "size" :> PyInt(8), force_text |-> TRUE,
      cache_enabled |-> PyBool(TRUE), url_signature_enabled |-> PyBool(TRUE)],
     [data |-> PyStr(s_hi), kw |-> "size" :> PyStr(<<"x">>), force_text |-> TRUE,
      cache_enabled |-> PyBool(FALSE), url_signature_enabled |-> PyBool(TRUE)],
     [data |-> PyInt(7), kw |-> ("image_format" :> PyStr(s_png)) @@ ("micro" :> PyBool(TRUE)),
      force_text |-> FALSE,
      cache_enabled |-> PyBool(FALSE), url_signature_enabled |-> PyBool(TRUE)],
     [data |-> PyBytes(<<104, 105, 33>>), kw |-> <<>>, force_text |-> FALSE,
      cache_enabled |-> PyBool(TRUE), url_signature_enabled |-> PyBool(FALSE)]}

\* the users of the requests
RequestUsers == {AnonymousUser, User(PyInt(1)), User(PyInt(2))}

\* the access policies the settings go through
ViewPolicies == {PyNone, Policy(PyBool(TRUE)), Policy(AllowAnybody), Policy(AllowUser1)}

CacheAliases == {PyNone, PyStr(<<"default">>)}

Init ==
    /\ \E alias \in CacheAliases : settings = SettingsWith(PyNone, alias)
    /\ RANDOM_TOKEN \in _make_random_token(settings)
    /\ process = 1
    /\ \E a \in UrlArguments : url = [args |-> a, built |-> Pending]
    /\ http = PyNone /\ cache = <<>>
    /\ kwargs = <<>> /\ options = Pending /\ via = "QRCodeOptions"
    /\ tok = NoToken /\ NoDecision /\ NoCall

\* make_qr_code_url drawing the random token anew for the URL it builds
MakeUrlWithNewToken ==
    /\ RANDOM_TOKEN' \in _make_random_token(settings)
    /\ url' = [url EXCEPT !.built =
                 make_qr_code_url(settings, RANDOM_TOKEN', url.args.data,
                                  QRCodeOptions(url.args.kw), url.args.force_text,
                                  url.args.cache_enabled, url.args.url_signature_enabled)]
    /\ UNCHANGED <<call, settings, process, optVars, tok, decision, http, cache>>

\* url = make_qr_code_url(data, QRCodeOptions(**kw), ...)
MakeUrl ==
    /\ url' = [url EXCEPT !.built =
                 make_qr_code_url(settings, RANDOM_TOKEN, url.args.data,
                                  QRCodeOptions(url.args.kw), url.args.force_text,
                                  url.args.cache_enabled, url.args.url_signature_enabled)]
    /\ UNCHANGED <<call, procVars, optVars, tok, decision, http, cache>>

\* what a client makes of the query of the URL
Queries ==
    {"as built", "no token", "empty token", "other size", "bad data", "non-ASCII data"}

DataKey(GET) == CHOOSE k \in {"text", "int", "bytes"} : k \in DOMAIN GET

QueryOf(how, GET) ==
    CASE how = "as built" -> GET
      [] how = "no token" -> [n \in DOMAIN GET \ {"token"} |-> GET[n]]
      [] how = "empty token" -> ("token" :> PyStr(s_empty)) @@ GET
      [] how = "other size" -> ("size" :> PyStr(<<"9">>)) @@ GET
      [] how = "bad data" -> (DataKey(GET) :> PyStr(<<"a">>)) @@ GET
      [] how = "non-ASCII data" -> (DataKey(GET) :> PyStr(<<"U+00E9">>)) @@ GET

\* the conditional headers a client sends
NoHeaders == [if_none_match |-> PyNone, if_modified_since |-> PyNone]

HeadersOf(which, GET) ==
    CASE which = "none" -> NoHeaders
      [] which = "If-None-Match" ->
            [if_none_match |-> qr_code_etag([GET |-> GET]), if_modified_since |-> PyNone]
      [] which = "If-Modified-Since" ->
            [if_none_match |-> PyNone,
             if_modified_since |-> PyInt(QR_CODE_GENERATION_VERSION_DATE + 1)]

Requests ==
    (Queries \X {"none"})
        \cup {<<"as built", "If-None-Match">>, <<"no token", "If-Modified-Since">>,
              <<"other size", "If-None-Match">>}

\* whether the token of the request verifies against the options o of it
VerifiesFor(st, random, request, o) ==
    /\ ~IsRaise(o)
    /\ check_url_signature_token(st, random, o, request.GET["token"].s) = Granted

\* whether the token of the request, if it has one, verifies against its options
TokenVerifies(st, random, request) ==
    /\ "token" \in DOMAIN request.GET
    /\ VerifiesFor(st, random, request, get_qr_code_option_from_request(request.GET))

\* the request is answered: out is <<what the view returns or raises, the cache>>
Answer(request, out) ==
    /\ http' = [request |-> request,
                response |-> Respond(out[1]),
                policy_allows |->
                    Truthy(allows_external_request_from_user(settings, request.user)),
                token_verifies |-> TokenVerifies(settings, RANDOM_TOKEN, request)]
    /\ cache' = out[2]

\* serve_qr_code_image(request) with its decorators
ServeRequest(request) == Answer(request, condition(settings, RANDOM_TOKEN, cache, request))

\* the request of a user for a query, with conditional headers
Receive(GET, user, which) ==
    ServeRequest([GET |-> GET, user |-> user, headers |-> HeadersOf(which, GET)])

\* a request made from the URL built is served
Serve ==
    /\ http = PyNone
    /\ url.built # Pending
    /\ \E r \in Requests, user \in RequestUsers :
          Receive(QueryOf(r[1], url.built), user, r[2])
    /\ UNCHANGED <<call, url, procVars, optVars, tok, decision>>

\* the response is sent and the exchange ends
Close ==
    /\ http # PyNone
    /\ http' = PyNone
    /\ UNCHANGED <<call, url, cache, procVars, optVars, tok, decision>>

\* between two exchanges
Idle == http = PyNone

Next ==
    \/ Idle /\ MakeUrl
    \/ Serve
    \/ Close
    \/ Idle /\ Restart
    \/ Idle /\ ChangeSettings(ViewPolicies)

Spec == Init /\ [][Next]_vars

-----------------------------------------------------------------------------
(* Embedded QR codes and their cache (qr_code/qrcode/maker.py) *)

\* str(data): the text of the value; of bytes, their repr
StrOfData(data) ==
    IF data.t = "bytes"
    THEN <<"b", "'">> \o [i \in 1..Len(data.b) |-> Chr(data.b[i])] \o <<"'">>
    ELSE PyStrOf(data)

\* make_qr: the code the encoder makes of the data under kw_make()
make_qr(data, o, force_text) ==
    [t |-> "qr",
     data |-> IF force_text THEN PyStr(StrOfData(data)) ELSE data,
     mode |-> IF force_text THEN "byte" ELSE "auto",
     make |-> kw_make(o)]

\* django.utils.html.escape, one character
EscapeChar(c) ==
    CASE c = "&" -> <<"&", "a", "m", "p", ";">>
      [] c = "<" -> <<"&", "l", "t", ";">>
      [] c = ">" -> <<"&", "g", "t", ";">>
      [] c = "\"" -> <<"&", "q", "u", "o", "t", ";">>
      [] c = "'" -> <<"&", "#", "x", "2", "7", ";">>
      [] OTHER -> <<c>>

\* django.utils.html.escape(text)
RECURSIVE escape(_)
escape(s) == IF Len(s) = 0 THEN <<>> ELSE EscapeChar(s[1]) \o escape(Tail(s))

KnownEncodings == {s_utf8, <<"iso-8859-1">>, <<"shift-jis">>}

\* the alt text make_embedded_qr_code derives from the data when none is given
DefaultAltText(data, o) ==
    IF data.t = "bytes"
    THEN IF Truthy(o.encoding) /\ o.encoding.s \notin KnownEncodings
         THEN Raise("ValueError")
         ELSE PyStr([i \in 1..Len(data.b) |->
                        IF data.b[i] <= 127 THEN Chr(data.b[i]) ELSE ToString(data.b[i])])
    ELSE PyStr(PyStrOf(data))

\* the keywords without the image format (kw.pop("kind"))
WithoutKind(kw) == [k \in DOMAIN kw \ {"kind"} |-> kw[k]]

\* the class attribute of the element
ClassAttr(class_names) ==
    IF Truthy(class_names)
    THEN <<" ", "c", "l", "a", "s", "s", "=", "\"">> \o class_names.s \o <<"\"">>
    ELSE <<>>

\* the element, once the code, the keywords and the alt text are there
EmbeddedElement(qr, o, kw, use_data_uri_for_svg, alt_text, class_names) ==
    IF IsRaise(alt_text) THEN alt_text
    ELSE IF o.image_format = PyStr(s_png)
    THEN IF kw.scale.t = "str" THEN Raise("TypeError")
         ELSE [t |-> "img", src |-> [uri |-> "png_data_uri", qr |-> qr, kw |-> WithoutKind(kw)],
               alt |-> escape(PyStrOf(alt_text)), class_attr |-> ClassAttr(class_names)]
    ELSE IF use_data_uri_for_svg
    THEN [t |-> "img", src |-> [uri |-> "data:image/svg+xml;base64", qr |-> qr, kw |-> kw],
          alt |-> escape(PyStrOf(alt_text)), class_attr |-> ClassAttr(class_names)]
    ELSE [t |-> "svg", src |-> [uri |-> "svg_inline", qr |-> qr, kw |-> WithoutKind(kw)],
          alt |-> <<>>, class_attr |-> <<>>]

\* make_embedded_qr_code once kw_save() has returned
EmbeddedWith(kw, data, o, force_text, use_data_uri_for_svg, alt_text, class_names) ==
    IF IsRaise(kw) THEN kw
    ELSE EmbeddedElement(make_qr(data, o, force_text), o, kw, use_data_uri_for_svg,
            IF alt_text = PyNone /\ (use_data_uri_for_svg \/ o.image_format = PyStr(s_png))
            THEN DefaultAltText(data, o) ELSE alt_text,
            class_names)

\* make_embedded_qr_code: the markup, or the exception raised
make_embedded_qr_code(data, o, force_text, use_data_uri_for_svg, alt_text, class_names) ==
    EmbeddedWith(kw_save(o), data, o, force_text, use_data_uri_for_svg, alt_text, class_names)

\* hashlib.md5(...).hexdigest() of "qr.{url}&data_uri_for_svg={flag}": one
\* opaque element, equal for two digests exactly when the texts are equal
Md5OfUrl(built, use_data_uri_for_svg) ==
    [t |-> "md5", url |-> built, data_uri_for_svg |-> PyStrOf(PyBool(use_data_uri_for_svg))]

\* a key that tells the values of the size apart, not only their texts
EmbeddedCacheKeyOfSize(st, random, data, o, force_text, use_data_uri_for_svg) ==
    [t |-> "md5",
     url |-> make_qr_code_url(st, random, data, o, force_text, PyBool(TRUE), PyBool(FALSE)),
     data_uri_for_svg |-> PyStrOf(PyBool(use_data_uri_for_svg)),
     size |-> o.size]

\* the key get_or_make_cached_embedded_qr_code looks the markup up under
EmbeddedCacheKey(st, random, data, o, force_text, use_data_uri_for_svg) ==
    Md5OfUrl(make_qr_code_url(st, random, data, o, force_text, PyBool(TRUE), PyBool(FALSE)),
             use_data_uri_for_svg)

\* how many markups the cache holds
MaxEmbedded == 2

\* cache.set(key, qr_code, timeout=cache_timeout): a timeout of 0 stores nothing
SetEmbedded(stored, key, qr_code, cache_timeout) ==
    IF IsRaise(qr_code) THEN <<qr_code, stored>>
    ELSE IF cache_timeout = PyInt(0) \/ Cardinality(DOMAIN stored) >= MaxEmbedded
    THEN <<qr_code, stored>>
    ELSE <<qr_code, (key :> qr_code) @@ stored>>

\* get_or_make_cached_embedded_qr_code once the key is computed:
\* <<the markup or the exception, the cache afterwards>>
CachedOrMade(stored, key, a, o) ==
    IF key \in DOMAIN stored THEN <<stored[key], stored>>
    ELSE SetEmbedded(stored, key,
                     make_embedded_qr_code(a.data, o, a.force_text, a.use_data_uri_for_svg,
                                           a.alt_text, a.class_names),
                     a.cache_timeout)

\* get_or_make_cached_embedded_qr_code(data, qr_code_options, ...), a being
\* the arguments and o the options
get_or_make_cached_embedded_qr_code(st, random, stored, a, o) ==
    IF ~Truthy(st.QR_CODE_CACHE_ALIAS) THEN <<Raise("RuntimeError"), stored>>
    ELSE CachedOrMade(stored,
                      EmbeddedCacheKey(st, random, a.data, o, a.force_text,
                                       a.use_data_uri_for_svg),
                      a, o)

-----------------------------------------------------------------------------
(* The specification of the embedded codes: calls of                        *)
(* get_or_make_cached_embedded_qr_code on one cache.                        *)

s_18 == <<"1", "8">>

\* a text that closes an attribute and opens an element: "><b
s_markup == <<"\"", ">", "<", "b">>

\* one call of get_or_make_cached_embedded_qr_code with the default timeout
EmbedCall(data, kw, use_data_uri_for_svg, alt_text, class_names) ==
    [data |-> data, kw |-> kw, force_text |-> TRUE,
     use_data_uri_for_svg |-> use_data_uri_for_svg, alt_text |-> alt_text,
     class_names |-> class_names, cache_timeout |-> PyNone]

\* the calls: one payload with the module size written in four ways; as PNG
\* and as a data URI with and without an alt text and class names; given as
\* bytes; and with a timeout of 0
EmbedArguments ==
    {EmbedCall(PyStr(s_hi), kw, FALSE, PyNone, PyNone) :
        kw \in {<<>>, "size" :> PyStr(<<"M">>), "size" :> PyInt(18), "size" :> PyStr(s_18)}}
    \cup {EmbedCall(PyStr(s_hi), "image_format" :> PyStr(s_png), FALSE, alt, cls) :
            alt \in {PyNone, PyStr(<<"a">>)}, cls \in {PyNone, PyStr(<<"c">>)}}
    \cup {EmbedCall(PyStr(s_hi), <<>>, TRUE, alt, PyNone) : alt \in {PyNone, PyStr(<<"a">>)}}
    \cup {EmbedCall(PyBytes(<<104, 105>>), <<>>, FALSE, PyNone, PyNone),
          [EmbedCall(PyStr(s_hi), <<>>, TRUE, PyNone, PyNone)
              EXCEPT !.cache_timeout = PyInt(0)]}

InitEmbed ==
    /\ \E alias \in CacheAliases : settings = SettingsWith(PyNone, alias)
    /\ RANDOM_TOKEN \in _make_random_token(settings)
    /\ process = 1
    /\ cache = <<>> /\ NoCall
    /\ url = PyNone /\ http = PyNone /\ tok = NoToken /\ NoDecision
    /\ kwargs = <<>> /\ options = Pending /\ via = "QRCodeOptions"

\* the call has returned out = <<the markup or the exception, the cache>>
ReturnEmbedded(a, o, out) ==
    /\ call' = [op |-> "get_or_make_cached_embedded_qr_code", args |-> a,
                key |-> EmbeddedCacheKey(settings, RANDOM_TOKEN, a.data, o, a.force_text,
                                         a.use_data_uri_for_svg),
                hit |-> out[2] = cache /\ ~IsRaise(out[1]) /\ cache # <<>>
                          /\ \E k \in DOMAIN cache : cache[k] = out[1],
                result |-> out[1]]
    /\ cache' = out[2]

CallEmbedded(a, o) ==
    ReturnEmbedded(a, o,
                   get_or_make_cached_embedded_qr_code(settings, RANDOM_TOKEN, cache, a, o))

\* get_or_make_cached_embedded_qr_code(data, QRCodeOptions(**kw), ...)
GetOrMakeCached ==
    /\ \E a \in EmbedArguments : CallEmbedded(a, QRCodeOptions(a.kw))
    /\ UNCHANGED <<procVars, optVars, tok, decision, url, http>>

\* caches[settings.QR_CODE_CACHE_ALIAS].clear()
ClearCache ==
    /\ cache # <<>>
    /\ cache' = <<>>
    /\ UNCHANGED <<call, procVars, optVars, tok, decision, url, http>>

\* calls with an alt text and class names that hold the characters HTML
\* escapes, as PNG and as a data URI
MarkupArguments ==
    {EmbedCall(PyStr(s_hi), kw, kw = <<>>, alt, cls) :
        kw \in {<<>>, "image_format" :> PyStr(s_png)},
        alt \in {PyNone, PyStr(s_markup)}, cls \in {PyNone, PyStr(s_markup)}}

\* make_embedded_qr_code(data, QRCodeOptions(**kw), ...), called directly
MakeEmbedded ==
    /\ \E a \in EmbedArguments \cup MarkupArguments :
          call' = [op |-> "make_embedded_qr_code", args |-> a,
                   result |-> make_embedded_qr_code(a.data, QRCodeOptions(a.kw), a.force_text,
                                                    a.use_data_uri_for_svg, a.alt_text,
                                                    a.class_names)]
    /\ UNCHANGED <<cache, procVars, optVars, tok, decision, url, http>>

NextEmbed == GetOrMakeCached \/ ClearCache \/ MakeEmbedded

SpecEmbed == InitEmbed /\ [][NextEmbed]_vars

-----------------------------------------------------------------------------
(* The specification of the URLs: make_qr_code_url builds the URL of a      *)
(* payload under some options, and the view decodes the payload of it.      *)

s_red == <<"r", "e", "d">>

\* the keyword arguments of the options of the URLs
UrlKwargs ==
    {<<>>}
    \cup {"size" :> v : v \in {PyInt(18), PyStr(<<"M">>), PyStr(s_m), PyInt(6), PyFloat(21)}}
    \cup {"border" :> v : v \in {PyInt(4), PyInt(2)}}
    \cup {"version" :> v : v \in {PyInt(1), PyInt(41), PyStr(<<"M", "1">>)}}
    \cup {"image_format" :> v : v \in {PyStr(s_png), PyStr(<<"S", "V", "G">>)}}
    \cup {"error_correction" :> v : v \in {PyStr(s_m), PyStr(<<"Q">>), PyStr(<<"x">>)}}
    \cup {n :> PyBool(b) : n \in FlagNames, b \in BOOLEAN}
    \cup {"encoding" :> v : v \in {PyStr(s_empty), PyNone, PyStr(s_utf8)}}
    \cup {n :> v : n \in {"dark_color", "finder_dark_color"},
                   v \in {PyStr(s_red), PyBool(FALSE), PyNone}}

\* the payloads: text, integers, a bool and bytes
UrlPayloads == {PyStr(s_hi), PyInt(7), PyInt(-7), PyBool(TRUE), PyBytes(<<104, 105, 33>>)}

InitUrl ==
    /\ InitProcess({PyNone})
    /\ \E kw \in UrlKwargs, data \in UrlPayloads, force_text \in BOOLEAN,
          cached \in {PyNone, PyBool(FALSE)}, signed \in {PyNone, PyBool(FALSE)} :
          url = [args |-> [data |-> data, kw |-> kw, force_text |-> force_text,
                           cache_enabled |-> cached, url_signature_enabled |-> signed],
                 built |-> Pending]
    /\ http = PyNone /\ cache = <<>> /\ NoCall
    /\ tok = NoToken /\ NoDecision
    /\ kwargs = <<>> /\ options = Pending /\ via = "QRCodeOptions"

\* serve_qr_code_image reads the options and decodes the payload of the URL built
DecodePayload ==
    /\ url.built # Pending
    /\ NoCall
    /\ call' = [op |-> "serve_qr_code_image", GET |-> url.built,
                options |-> get_qr_code_option_from_request(url.built),
                decoded |-> RequestData(url.built)]
    /\ UNCHANGED <<procVars, optVars, tok, decision, viewVars>>

NextUrl == (url.built = Pending /\ MakeUrl) \/ DecodePayload

SpecUrl == InitUrl /\ [][NextUrl]_vars

-----------------------------------------------------------------------------
(* Texts for applications (qr_code/qrcode/utils.py): MeCARD contacts and     *)
(* Wi-Fi configurations                                                      *)

\* string_to_escape.replace(sc, "\\%s" % sc) for a one-character sc
RECURSIVE Replaced(_, _)
Replaced(s, sc) ==
    IF s = <<>> THEN <<>>
    ELSE (IF Head(s) = sc THEN <<"\\", sc>> ELSE <<Head(s)>>) \o Replaced(Tail(s), sc)

\* the characters escaped, the backslash after the others
special_chars_backslash_last == <<"\"", ";", ",", ":", "\\">>

special_chars == <<"\\", "\"", ";", ",", ":">>

\* for sc in chars: string_to_escape = string_to_escape.replace(...)
RECURSIVE ReplacedEach(_, _)
ReplacedEach(s, chars) ==
    IF chars = <<>> THEN s ELSE ReplacedEach(Replaced(s, Head(chars)), Tail(chars))

_escape_mecard_special_chars(string_to_escape) ==
    IF ~Truthy(string_to_escape) THEN string_to_escape
    ELSE PyStr(ReplacedEach(string_to_escape.s, special_chars))

\* a date, and date.strftime("%Y%m%d")
Date(y, m, d) == [t |-> "date", y |-> y, m |-> m, d |-> d]

RECURSIVE ZeroPadded(_, _)
ZeroPadded(s, width) == IF Len(s) >= width THEN s ELSE ZeroPadded(<<"0">> \o s, width)

strftime_Ymd(date) ==
    ZeroPadded(NatToStr(date.y), 4) \o ZeroPadded(NatToStr(date.m), 2)
        \o ZeroPadded(NatToStr(date.d), 2)

\* the field of a pair of name components, escaped: "N:%s;" or "SOUND:%s;"
NameField(tag, last, first) ==
    IF Truthy(last) /\ Truthy(first) THEN tag \o last.s \o <<",">> \o first.s \o <<";">>
    ELSE IF Truthy(last) THEN tag \o last.s \o <<";">>
    ELSE IF Truthy(first) THEN tag \o first.s \o <<";">>
    ELSE <<>>

\* "TAG:%s;" % _escape_mecard_special_chars(value), if value
EscapedField(tag, value) ==
    IF Truthy(value) THEN tag \o _escape_mecard_special_chars(value).s \o <<";">> ELSE <<>>

ContactDetailFields ==
    {"first_name", "last_name", "first_name_reading", "last_name_reading", "tel", "tel_av",
     "email", "memo", "birthday", "address", "url", "nickname", "org"}

\* ContactDetail(): every field is None
ContactDetail == [f \in ContactDetailFields |-> PyNone]

\* ContactDetail.make_qr_code_data
ContactDetail_make_qr_code_data(self) ==
    PyStr(<<"M", "E", "C", "A", "R", "D", ":">>
          \o NameField(<<"N", ":">>, _escape_mecard_special_chars(self.last_name),
                       _escape_mecard_special_chars(self.first_name))
          \o NameField(<<"S", "O", "U", "N", "D", ":">>, _escape_mecard_special_chars(self.last_name_reading),
                       _escape_mecard_special_chars(self.first_name_reading))
          \o EscapedField(<<"T", "E", "L", ":">>, self.tel)
          \o EscapedField(<<"T", "E", "L", "-", "A", "V", ":">>, self.tel_av)
          \o EscapedField(<<"E", "M", "A", "I", "L", ":">>, self.email)
          \o EscapedField(<<"N", "O", "T", "E", ":">>, self.memo)
          \o (IF Truthy(self.birthday) THEN <<"B", "D", "A", "Y", ":">> \o strftime_Ymd(self.birthday) \o <<";">>
              ELSE <<>>)
          \o (IF Truthy(self.address) THEN <<"A", "D", "R", ":">> \o self.address.s \o <<";">> ELSE <<>>)
          \o EscapedField(<<"U", "R", "L", ":">>, self.url)
          \o EscapedField(<<"N", "I", "C", "K", "N", "A", "M", "E", ":">>, self.nickname)
          \o EscapedField(<<"O", "R", "G", ":">>, self.org)
          \o <<";">>)

\* segno.helpers._escape_mecard: backslash, semicolon, colon and double quote
\* are translated in one pass
EscapeMecardChar(c) == IF c \in {"\\", ";", ":", "\""} THEN <<"\\", c>> ELSE <<c>>

RECURSIVE _escape_mecard(_)
_escape_mecard(s) ==
    IF s = <<>> THEN <<>> ELSE EscapeMecardChar(Head(s)) \o _escape_mecard(Tail(s))

\* segno.helpers.make_mecard_data, make_multifield for None or one str
make_multifield(name, val) ==
    IF val = PyNone THEN <<>> ELSE name \o _escape_mecard(val.s) \o <<";">>

\* 'TAG:{0};'.format(escape(value)), if value
MecardField(tag, value) ==
    IF Truthy(value) THEN tag \o _escape_mecard(value.s) \o <<";">> ELSE <<>>

AddressFields == <<"pobox", "roomno", "houseno", "city", "prefecture", "zipcode", "country">>

\* ','.join(escape(i or '') for i in adr_properties)
RECURSIVE AddressData(_, _)
AddressData(kw, i) ==
    IF i > Len(AddressFields) THEN <<>>
    ELSE (IF i = 1 THEN <<>> ELSE <<",">>)
         \o (IF Truthy(kw[AddressFields[i]]) THEN _escape_mecard(kw[AddressFields[i]].s)
             ELSE <<>>)
         \o AddressData(kw, i + 1)

\* segno.helpers.make_mecard_data(**kw)
make_mecard_data(kw) ==
    <<"M", "E", "C", "A", "R", "D", ":", "N", ":">> \o _escape_mecard(kw.name.s) \o <<";">>
        \o MecardField(<<"S", "O", "U", "N", "D", ":">>, kw.reading)
        \o make_multifield(<<"T", "E", "L", ":">>, kw.phone)
        \o make_multifield(<<"T", "E", "L", "-", "A", "V", ":">>, kw.videophone)
        \o make_multifield(<<"E", "M", "A", "I", "L", ":">>, kw.email)
        \o MecardField(<<"N", "I", "C", "K", "N", "A", "M", "E", ":">>, kw.nickname)
        \o (IF Truthy(kw.birthday)
            THEN <<"B", "D", "A", "Y", ":">> \o (IF kw.birthday.t = "date" THEN strftime_Ymd(kw.birthday)
                              ELSE kw.birthday.s) \o <<";">>
            ELSE <<>>)
        \o make_multifield(<<"U", "R", "L", ":">>, kw.url)
        \o (IF \E i \in 1..Len(AddressFields) : Truthy(kw[AddressFields[i]])
            THEN <<"A", "D", "R", ":">> \o AddressData(kw, 1) \o <<";">> ELSE <<>>)
        \o MecardField(<<"M", "E", "M", "O", ":">>, kw.memo)
        \o <<";">>

MeCardFields ==
    {"name", "reading", "email", "phone", "videophone", "memo", "nickname", "birthday",
     "url", "pobox", "roomno", "houseno", "city", "prefecture", "zipcode", "country", "org"}

\* MeCard(name=name): every other field is None
MeCard(name) == [f \in MeCardFields |-> IF f = "name" THEN name ELSE PyNone]

\* kw = asdict(self), the zipcode as a str, without org
MeCardKeywords(self) ==
    [f \in MeCardFields \ {"org"} |->
        IF f = "zipcode" /\ self.zipcode # PyNone /\ self.zipcode # PyStr(s_empty)
        THEN PyStr(PyStrOf(self.zipcode)) ELSE self[f]]

\* MeCard.make_qr_code_data
MeCard_make_qr_code_data(self) ==
    PyStr(make_mecard_data(MeCardKeywords(self)) \o EscapedField(<<"O", "R", "G", ":">>, self.org))

AUTHENTICATION == [nopass |-> 0, WEP |-> 1, WPA |-> 2]

AUTHENTICATION_CHOICES == <<<<"n", "o", "p", "a", "s", "s">>, <<"W", "E", "P">>, <<"W", "P", "A">>>>

\* WifiConfig.make_qr_code_data
WifiConfig_make_qr_code_data(self) ==
    PyStr(<<"W", "I", "F", "I", ":">>
          \o EscapedField(<<"S", ":">>, self.ssid)
          \o (IF self.authentication # 0
              THEN <<"T", ":">> \o AUTHENTICATION_CHOICES[self.authentication + 1] \o <<";">>
              ELSE <<>>)
          \o EscapedField(<<"P", ":">>, self.password)
          \o (IF self.hidden THEN <<"H", ":">> \o Lower(PyStrOf(PyBool(self.hidden))) \o <<";">>
              ELSE <<>>)
          \o <<";">>)

\* segno.helpers._make_epc_qr_data(name, iban, amount, text, reference, bic,
\* purpose, encoding=1) for a whole amount: the lines of the EPC code, or the
\* ValueError for a text and a reference given together or both missing
EpcLine(v) == IF v = PyNone THEN <<>> ELSE v.s

EpcData_make_qr_code_data(self) ==
    IF Truthy(self.text) = Truthy(self.reference) THEN Raise("ValueError")
    ELSE PyStr(<<"B", "C", "D">> \o <<"\n">> \o <<"0", "0", "2">> \o <<"\n">> \o <<"1">> \o <<"\n">> \o <<"S", "C", "T">> \o <<"\n">>
               \o EpcLine(self.bic) \o <<"\n">> \o self.name.s \o <<"\n">>
               \o self.iban.s \o <<"\n">> \o <<"E", "U", "R">> \o IntToStr(self.amount.n) \o <<"\n">>
               \o EpcLine(self.purpose) \o <<"\n">> \o EpcLine(self.reference) \o <<"\n">>
               \o EpcLine(self.text))

-----------------------------------------------------------------------------
(* Template tags (qr_code/templatetags/qr_code.py) and the options of their  *)
(* arguments (qr_code/qrcode/maker.py)                                       *)

\* _options_from_args(args): the options given as options=..., or the
\* options made of the other arguments, the string "None" read as None
_options_from_args(args) ==
    IF "options" \in DOMAIN args /\ Truthy(args["options"])
    THEN IF args["options"].t = "QRCodeOptions" THEN args["options"] ELSE Raise("TypeError")
    ELSE QRCodeOptions([k \in DOMAIN args |->
                           IF args[k] = PyStr(s_None) THEN PyNone ELSE args[k]])

EmbeddedOrRaised(data, o, force_text) ==
    IF IsRaise(o) THEN o
    ELSE make_embedded_qr_code(data, o, force_text, FALSE, PyNone, PyNone)

\* make_qr_code_with_args(data, qr_code_args, force_text)
make_qr_code_with_args(data, qr_code_args, force_text) ==
    EmbeddedOrRaised(data, _options_from_args(qr_code_args), force_text)

\* qr_code_args.pop(name, default), read as a bool
PoppedFlag(qr_code_args, name, default) ==
    IF name \notin DOMAIN qr_code_args THEN default
    ELSE IF qr_code_args[name].t = "bool" THEN qr_code_args[name].b
    ELSE qr_code_args[name] # PyStr(<<"F", "a", "l", "s", "e">>)

UrlOrRaised(st, random, data, o, force_text, cache_enabled, url_signature_enabled) ==
    IF IsRaise(o) THEN o
    ELSE make_qr_code_url(st, random, data, o, force_text, PyBool(cache_enabled),
                          PyBool(url_signature_enabled))

\* make_qr_code_url_with_args(data, qr_code_args, force_text)
make_qr_code_url_with_args(st, random, data, qr_code_args, force_text) ==
    UrlOrRaised(st, random, data,
                _options_from_args([k \in DOMAIN qr_code_args
                                        \ {"cache_enabled", "url_signature_enabled"} |->
                                      qr_code_args[k]]),
                force_text,
                PoppedFlag(qr_code_args, "cache_enabled", DEFAULT_CACHE_ENABLED),
                PoppedFlag(qr_code_args, "url_signature_enabled",
                           DEFAULT_URL_SIGNATURE_ENABLED))

\* final_args = {**qr_code_args}; final_args.update(extra_qr_code_args)
FinalArgs(qr_code_args, extra_qr_code_args) ==
    IF extra_qr_code_args = PyNone \/ DOMAIN extra_qr_code_args = {} THEN qr_code_args
    ELSE extra_qr_code_args @@ qr_code_args

AppQrCode(st, random, data, embedded, final_args, force_text) ==
    IF IsRaise(data) THEN data
    ELSE IF embedded THEN make_qr_code_with_args(data, final_args, force_text)
    ELSE make_qr_code_url_with_args(st, random, data, final_args, force_text)

\* _make_app_qr_code_from_obj_or_kwargs for expected_cls = EpcData: an object
\* is given as [t |-> "EpcData", fields], a dict as [t |-> "dict", fields]
_make_app_qr_code_from_obj_or_kwargs(st, random, obj_or_kwargs, embedded, qr_code_args, extra_qr_code_args, force_text) ==
    AppQrCode(st, random, EpcData_make_qr_code_data(obj_or_kwargs.fields), embedded,
              FinalArgs(qr_code_args, extra_qr_code_args), force_text)

\* extra = dict(error_correction='M', boost_error=False, micro=False, encoding='utf-8')
EpcExtra ==
    [error_correction |-> PyStr(<<"M">>), boost_error |-> PyBool(FALSE),
     micro |-> PyBool(FALSE), encoding |-> PyStr(s_utf8)]

qr_for_epc(st, random, epc_data, qr_code_args) ==
    _make_app_qr_code_from_obj_or_kwargs(st, random, epc_data, TRUE, qr_code_args, EpcExtra, FALSE)

qr_url_for_epc(st, random, epc_data, qr_code_args) ==
    _make_app_qr_code_from_obj_or_kwargs(st, random, epc_data, FALSE, qr_code_args, EpcExtra, FALSE)

-----------------------------------------------------------------------------
(* The specification of the texts for applications and of the tags for EPC   *)
(* codes: a call is drawn, then made.                                        *)

\* the longest string given to _escape_mecard_special_chars
MaxEscaped == 3

AppChars == {"a", "\\", "\"", ";", ",", ":"}

RECURSIVE Strings(_, _)
Strings(chars, n) ==
    IF n = 0 THEN {<<>>}
    ELSE Strings(chars, n - 1)
            \cup {<<c>> \o s : c \in chars, s \in Strings(chars, n - 1)}

EscapeInputs == {PyNone} \cup {PyStr(s) : s \in Strings(AppChars, MaxEscaped)}

\* the values of a text field of a contact
FieldTexts == {PyNone, PyStr(s_empty), PyStr(<<"a">>), PyStr(<<";", "b">>)}

s_birthday == <<"1", "9", "8", "5", "1", "0", "0", "2">>

\* contacts with at most two text fields given, with and without a birthday
ContactInputs ==
    {[ContactDetail EXCEPT ![f] = v, ![g] = w, !.birthday = b] :
        f \in ContactDetailFields \ {"birthday"}, g \in ContactDetailFields \ {"birthday"},
        v \in FieldTexts, w \in FieldTexts, b \in {PyNone, Date(1985, 10, 2)}}

MeCardValues(f) ==
    CASE f = "zipcode" -> {PyStr(s_empty), PyInt(2800), PyStr(<<"2", ";">>)}
      [] f = "birthday" -> {Date(1985, 10, 2), PyStr(s_birthday)}
      [] OTHER -> FieldTexts

\* contacts with a name, at most one other field, with and without org
MeCardInputs ==
    UNION {{[MeCard(name) EXCEPT ![f] = v, !.org = org] :
               name \in {PyStr(<<"a">>), PyStr(<<"b", ",", "a">>)},
               v \in MeCardValues(f), org \in FieldTexts} :
           f \in MeCardFields \ {"name", "org"}}

WifiInputs ==
    {[ssid |-> s, authentication |-> a, password |-> p, hidden |-> h] :
        s \in {PyStr(s_empty), PyStr(<<"s">>), PyStr(<<"s", ";">>)},
        a \in {AUTHENTICATION.nopass, AUTHENTICATION.WEP, AUTHENTICATION.WPA},
        p \in {PyStr(s_empty), PyStr(<<"p">>), PyStr(<<"p", ":">>)},
        h \in BOOLEAN}

\* EpcData(name=..., iban=..., amount=..., text=...)
EpcFields(text, reference) ==
    [name |-> PyStr(<<"W">>), iban |-> PyStr(<<"D", "E", "3", "3">>), amount |-> PyInt(20),
     text |-> text, reference |-> reference, bic |-> PyNone, purpose |-> PyNone]

EpcInputs ==
    {[t |-> cls, fields |-> EpcFields(PyStr(<<"t">>), PyNone)] : cls \in {"EpcData", "dict"}}
        \cup {[t |-> "EpcData", fields |-> EpcFields(PyNone, PyStr(<<"1">>))],
              [t |-> "EpcData", fields |-> EpcFields(PyNone, PyNone)]}

\* the rendering arguments a template gives to the tags for EPC codes
EpcKwargs ==
    {<<>>}
        \cup {"error_correction" :> PyStr(e) : e \in {<<"H">>, <<"L">>, <<"M">>}}
        \cup {"boost_error" :> PyBool(b) : b \in BOOLEAN}
        \cup {"size" :> PyStr(<<"L">>), "image_format" :> PyStr(s_png),
              "micro" :> PyBool(TRUE), "cache_enabled" :> PyBool(FALSE),
              "url_signature_enabled" :> PyStr(<<"F", "a", "l", "s", "e">>),
              "options" :> PyNone, "options" :> PyStr(<<"H">>)}
        \cup {"options" :> QRCodeOptions(kw) :
                kw \in {<<>>, "error_correction" :> PyStr(<<"H">>),
                        "boost_error" :> PyBool(FALSE),
                        "error_correction" :> PyStr(<<"M">>) @@ "boost_error" :> PyBool(FALSE)}}
        \cup {"options" :> QRCodeOptions(<<>>) @@ "error_correction" :> PyStr(<<"H">>)}

Drawn(op, args) == [op |-> op, args |-> args, result |-> Pending]

AppCalls ==
    {Drawn("_escape_mecard_special_chars", s) : s \in EscapeInputs}
        \cup {Drawn("ContactDetail.make_qr_code_data", c) : c \in ContactInputs}
        \cup {Drawn("MeCard.make_qr_code_data", m) : m \in MeCardInputs}
        \cup {Drawn("WifiConfig.make_qr_code_data", w) : w \in WifiInputs}
        \cup {Drawn(op, [epc_data |-> e, kwargs |-> kw]) :
                op \in {"qr_for_epc", "qr_url_for_epc"}, e \in EpcInputs, kw \in EpcKwargs}

InitApps ==
    /\ InitProcess({PyNone})
    /\ call \in AppCalls
    /\ url = PyNone /\ http = PyNone /\ cache = <<>>
    /\ tok = NoToken /\ NoDecision
    /\ kwargs = <<>> /\ options = Pending /\ via = "QRCodeOptions"

\* the call drawn is the call of op and has not been made
Drawing(op) == call.op = op /\ call.result = Pending

Returns(result) ==
    /\ call' = [call EXCEPT !.result = result]
    /\ UNCHANGED <<procVars, optVars, tok, decision, viewVars>>

EscapeMecardSpecialChars ==
    /\ Drawing("_escape_mecard_special_chars")
    /\ Returns(_escape_mecard_special_chars(call.args))

ContactDetailData ==
    /\ Drawing("ContactDetail.make_qr_code_data")
    /\ Returns(ContactDetail_make_qr_code_data(call.args))

MeCardData ==
    /\ Drawing("MeCard.make_qr_code_data")
    /\ Returns(MeCard_make_qr_code_data(call.args))

WifiConfigData ==
    /\ Drawing("WifiConfig.make_qr_code_data")
    /\ Returns(WifiConfig_make_qr_code_data(call.args))

QrForEpc ==
    /\ Drawing("qr_for_epc")
    /\ Returns(qr_for_epc(settings, RANDOM_TOKEN, call.args.epc_data, call.args.kwargs))

QrUrlForEpc ==
    /\ Drawing("qr_url_for_epc")
    /\ Returns(qr_url_for_epc(settings, RANDOM_TOKEN, call.args.epc_data, call.args.kwargs))

NextApps ==
    \/ EscapeMecardSpecialChars
    \/ ContactDetailData
    \/ MeCardData
    \/ WifiConfigData
    \/ QrForEpc
    \/ QrUrlForEpc

SpecApps == InitApps /\ [][NextApps]_vars

-----------------------------------------------------------------------------
(* Calendar events (qr_code/qrcode/utils.py, VEvent)                         *)

\* len(char.encode("utf-8")); the characters that are not ASCII are named by
\* their code point
Utf8Length(char) ==
    CASE char = "U+00E9" -> 2
      [] char = "U+20AC" -> 3
      [] char = "U+1F600" -> 4
      [] OTHER -> 1

\* line.encode("ascii") succeeds
IsAscii(line) == \A i \in 1..Len(line) : Utf8Length(line[i]) = 1

\* "".join(parts[lo..hi])
RECURSIVE JoinedRange(_, _, _)
JoinedRange(parts, lo, hi) ==
    IF lo > hi THEN <<>>
    ELSE IF lo = hi THEN parts[lo]
    ELSE JoinedRange(parts, lo, (lo + hi) \div 2)
            \o JoinedRange(parts, ((lo + hi) \div 2) + 1, hi)

Joined(parts) == JoinedRange(parts, 1, Len(parts))

\* sep.join(parts)
JoinedWith(sep, parts) ==
    Joined([k \in 1..Len(parts) |-> IF k = 1 THEN parts[k] ELSE sep \o parts[k]])

\* text.replace(c, by) for a character c
ReplacedChar(text, c, by) ==
    Joined([i \in 1..Len(text) |-> IF text[i] = c THEN by ELSE <<text[i]>>])

\* text.replace(a + b, by) for two different characters a and b
ReplacedPair(text, a, b, by) ==
    Joined([i \in 1..Len(text) |->
              IF text[i] = a /\ i < Len(text) /\ text[i + 1] = b THEN by
              ELSE IF text[i] = b /\ i > 1 /\ text[i - 1] = a THEN <<>>
              ELSE <<text[i]>>])

\* escape_char(text), the replacements in their order
escape_char(text) ==
    ReplacedChar(
        ReplacedPair(
            ReplacedChar(
                ReplacedChar(
                    ReplacedChar(ReplacedPair(text, "\\", "N", <<"\n">>), "\\", <<"\\", "\\">>),
                    ";", <<"\\", ";">>),
                ",", <<"\\", ",">>),
            "\r", "\n", <<"\\", "n">>),
        "\n", <<"\\", "n">>)

\* limit and fold_sep of fold_icalendar_line
limit == 75

fold_sep == <<"\r", "\n", " ">>

\* the positions of the line feeds of text, and the k-th of them
LineFeeds(text) == {i \in 1..Len(text) : text[i] = "\n"}

LineFeed(text, k) ==
    IF k = 0 THEN 0
    ELSE IF k > Cardinality(LineFeeds(text)) THEN Len(text) + 1
    ELSE CHOOSE p \in LineFeeds(text) : Cardinality({q \in LineFeeds(text) : q < p}) = k - 1

\* text.split("\n")
SplitLines(text) ==
    [k \in 1..(Cardinality(LineFeeds(text)) + 1) |->
        SubSeq(text, LineFeed(text, k - 1) + 1, LineFeed(text, k) - 1)]

\* fold_sep.join(line[i : i + limit - 1] for i in range(0, len(line), limit)):
\* the pieces taken at steps of limit, one character too far apart
FoldedAsciiSkipping(line, width) ==
    JoinedWith(fold_sep,
               [k \in 1..((Len(line) + width - 1) \div width) |->
                   SubSeq(line, (k - 1) * width + 1,
                          IF (k - 1) * width + width - 1 < Len(line)
                          THEN (k - 1) * width + width - 1 ELSE Len(line))])

\* fold_sep.join(line[i : i + limit - 1] for i in range(0, len(line), limit - 1))
FoldedAscii(line, width) ==
    JoinedWith(fold_sep,
               [k \in 1..((Len(line) + width - 2) \div (width - 1)) |->
                   SubSeq(line, (k - 1) * (width - 1) + 1,
                          IF k * (width - 1) < Len(line) THEN k * (width - 1) ELSE Len(line))])

\* len(line.encode("utf-8"))
Octets(line) ==
    Cardinality({i \in 1..Len(line) : Utf8Length(line[i]) = 1})
        + 2 * Cardinality({i \in 1..Len(line) : Utf8Length(line[i]) = 2})
        + 3 * Cardinality({i \in 1..Len(line) : Utf8Length(line[i]) = 3})
        + 4 * Cardinality({i \in 1..Len(line) : Utf8Length(line[i]) = 4})

\* the loop over the characters of a line that is not ASCII: byte_count at
\* the character j is the octets of line[p..j], p the character of the last
\* fold_sep (or the first character); the characters where it reaches the limit
Reaching(line, p, width) ==
    {j \in (p + 1)..Len(line) : Octets(SubSeq(line, p, j)) >= width}

RECURSIVE FoldsAfter(_, _, _)
FoldsAfter(line, p, width) ==
    IF Reaching(line, p, width) = {} THEN {}
    ELSE {CHOOSE j \in Reaching(line, p, width) : \A k \in Reaching(line, p, width) : j <= k}
            \cup FoldsAfter(line,
                            CHOOSE j \in Reaching(line, p, width) :
                                \A k \in Reaching(line, p, width) : j <= k,
                            width)

\* "".join(ret_chars), fold_sep appended before the characters of folds
WithFolds(line, folds) ==
    Joined([i \in 1..Len(line) |->
              IF i \in folds THEN fold_sep \o <<line[i]>> ELSE <<line[i]>>])

FoldedChars(line, width) == WithFolds(line, FoldsAfter(line, 1, width))

FoldedLine(line, width) ==
    IF IsAscii(line) THEN FoldedAscii(line, width) ELSE FoldedChars(line, width)

\* fold_icalendar_line with a limit
FoldedWithin(lines, width) == Joined([k \in 1..Len(lines) |-> FoldedLine(lines[k], width)])

\* fold_icalendar_line folding at limit + 2
fold_icalendar_line_wider(text) == FoldedWithin(SplitLines(text), limit + 2)

\* fold_icalendar_line(text)
fold_icalendar_line(text) == FoldedWithin(SplitLines(text), limit)

\* f"NAME:{','.join(map(escape_char, values))}", the content line of a property
ContentLine(name, values) ==
    name \o <<":">> \o JoinedWith(<<",">>, [k \in 1..Len(values) |-> escape_char(values[k])])

\* a datetime; tzinfo is None or the UTC offset of its zone in minutes
Datetime(y, m, d, H, M, S, tzinfo) ==
    [t |-> "datetime", y |-> y, m |-> m, d |-> d, H |-> H, M |-> M, S |-> S,
     tzinfo |-> tzinfo]

\* is_naive_datetime(t)
is_naive_datetime(t) == t.tzinfo = PyNone

\* the datetime minutes later, for the days of a month that stay in the month
MinutesOfMonth(t) == (t.d * 24 + t.H) * 60 + t.M

AtMinutes(t, minutes, tzinfo) ==
    [t EXCEPT !.d = minutes \div 1440, !.H = (minutes % 1440) \div 60,
              !.M = minutes % 60, !.tzinfo = tzinfo]

\* t.astimezone(zoneinfo.ZoneInfo("UTC")): a naive datetime is taken as the
\* local time of the process
astimezone_utc(t, local_offset) ==
    AtMinutes(t, MinutesOfMonth(t) - (IF t.tzinfo = PyNone THEN local_offset ELSE t.tzinfo.n),
              PyInt(0))

\* t.strftime("%Y%m%dT%H%M%S")
strftime_YmdTHMS(t) ==
    ZeroPadded(NatToStr(t.y), 4) \o ZeroPadded(NatToStr(t.m), 2) \o ZeroPadded(NatToStr(t.d), 2)
        \o <<"T">> \o ZeroPadded(NatToStr(t.H), 2) \o ZeroPadded(NatToStr(t.M), 2)
        \o ZeroPadded(NatToStr(t.S), 2)

\* get_datetime_str that writes the fields of an aware datetime as they are
get_datetime_str_unconverted(t, local_offset) ==
    IF is_naive_datetime(t) THEN strftime_YmdTHMS(t) ELSE strftime_YmdTHMS(t) \o <<"Z">>

\* get_datetime_str(t)
get_datetime_str(t, local_offset) ==
    IF is_naive_datetime(t) THEN strftime_YmdTHMS(t)
    ELSE strftime_YmdTHMS(astimezone_utc(t, local_offset)) \o <<"Z">>

\* (self.dtstamp or datetime.datetime.utcnow()).astimezone(UTC).strftime(...)
DtstampText(dtstamp, utcnow, local_offset) ==
    strftime_YmdTHMS(astimezone_utc(IF dtstamp = PyNone THEN utcnow ELSE dtstamp,
                                    local_offset)) \o <<"Z">>

\* a member of an enumeration
Member(name) == [t |-> "enum", name |-> name]

\* "\n" + line, if the value is given
LineIf(given, line) == IF given THEN <<"\n">> \o line ELSE <<>>

\* VEvent.make_qr_code_data, at the time utcnow of a process whose local time
\* is local_offset minutes ahead of UTC
VEvent_make_qr_code_data(self, utcnow, local_offset) ==
    PyStr(<<"B", "E", "G", "I", "N", ":", "V", "C", "A", "L", "E", "N", "D", "A", "R">> \o <<"\n">> \o <<"P", "R", "O", "D", "I", "D", ":", "D", "j", "a", "n", "g", "o", " ", "Q", "R", " ", "C", "o", "d", "e">> \o <<"\n">>
          \o <<"V", "E", "R", "S", "I", "O", "N", ":", "2", ".", "0">> \o <<"\n">> \o <<"B", "E", "G", "I", "N", ":", "V", "E", "V", "E", "N", "T">> \o <<"\n">>
          \o <<"D", "T", "S", "T", "A", "M", "P", ":">> \o DtstampText(self.dtstamp, utcnow, local_offset) \o <<"\n">>
          \o <<"U", "I", "D", ":">> \o self.uid.s \o <<"\n">>
          \o <<"D", "T", "S", "T", "A", "R", "T", ":">> \o get_datetime_str(self.start, local_offset) \o <<"\n">>
          \o <<"D", "T", "E", "N", "D", ":">> \o get_datetime_str(self.end, local_offset) \o <<"\n">>
          \o <<"S", "U", "M", "M", "A", "R", "Y", ":">> \o escape_char(self.summary.s)
          \o LineIf(self.event_class # PyNone, <<"C", "L", "A", "S", "S", ":">> \o self.event_class.name)
          \o LineIf(self.categories # PyNone /\ self.categories # <<>>,
                    fold_icalendar_line(ContentLine(<<"C", "A", "T", "E", "G", "O", "R", "I", "E", "S">>, self.categories)))
          \o LineIf(self.transparency # PyNone, <<"T", "R", "A", "N", "S", "P", ":">> \o self.transparency.name)
          \o LineIf(Truthy(self.description),
                    fold_icalendar_line(ContentLine(<<"D", "E", "S", "C", "R", "I", "P", "T", "I", "O", "N">>, <<self.description.s>>)))
          \o LineIf(Truthy(self.organizer), <<"O", "R", "G", "A", "N", "I", "Z", "E", "R", ":", "M", "A", "I", "L", "T", "O", ":">> \o self.organizer.s)
          \o LineIf(self.status # PyNone, <<"S", "T", "A", "T", "U", "S", ":">> \o self.status.name)
          \o LineIf(Truthy(self.location),
                    fold_icalendar_line(ContentLine(<<"L", "O", "C", "A", "T", "I", "O", "N">>, <<self.location.s>>)))
          \o LineIf(self.geo # PyNone,
                    <<"G", "E", "O", ":">> \o PyStrOf(self.geo[1]) \o <<";">> \o PyStrOf(self.geo[2]))
          \o LineIf(Truthy(self.url), <<"U", "R", "L", ":">> \o self.url.s)
          \o <<"\n">> \o <<"E", "N", "D", ":", "V", "E", "V", "E", "N", "T">> \o <<"\n">> \o <<"E", "N", "D", ":", "V", "C", "A", "L", "E", "N", "D", "A", "R">>)

-----------------------------------------------------------------------------
(* The specification of the calendar events: a call is drawn, then made.     *)

\* the longest ASCII value and the longest value of wide characters folded
MaxAscii == 150
MaxWide == 40

Repeated(c, n) == [i \in 1..n |-> c]

WideChars == {"U+00E9", "U+20AC", "U+1F600"}

\* the values folded: letters; letters around a character that is escaped or
\* a blank; wide characters after up to three letters; wide characters
\* between letters
FoldValues ==
    {Repeated("a", n) : n \in 0..MaxAscii}
        \cup {Repeated("a", n) \o <<c>> \o Repeated("b", 80) :
                n \in 58..64, c \in {";", ",", "\\", " ", "\r", "\n"}}
        \cup {Repeated("a", k) \o Repeated(c, n) : k \in 0..3, c \in WideChars, n \in 1..MaxWide}
        \cup {Repeated("a", n) \o <<c>> \o Repeated("b", 20) : n \in 56..64, c \in WideChars}

FoldInputs ==
    {[name |-> name, values |-> <<v>>] :
        name \in {<<"D", "E", "S", "C", "R", "I", "P", "T", "I", "O", "N">>, <<"L", "O", "C", "A", "T", "I", "O", "N">>}, v \in FoldValues}
        \cup {[name |-> <<"C", "A", "T", "E", "G", "O", "R", "I", "E", "S">>, values |-> <<v, w>>] :
                v \in {Repeated("a", n) : n \in 60..64} \cup {Repeated("U+20AC", 20)},
                w \in {Repeated("b", 80), <<"b", ",", "c">>, Repeated("U+1F600", 18)}}

\* the starts and ends of the events: shortly before and after midnight,
\* naive or in a zone ahead of, behind or at UTC
EventTimes ==
    {Datetime(2024, 5, 10, H, 30, 5, tzinfo) :
        H \in {0, 23}, tzinfo \in {PyNone, PyInt(0), PyInt(120), PyInt(-300)}}

VEvent(start, end, dtstamp) ==
    [uid |-> PyStr(<<"u">>), summary |-> PyStr(<<"s", ";">>), start |-> start, end |-> end,
     dtstamp |-> dtstamp, description |-> PyNone, organizer |-> PyNone, status |-> PyNone,
     location |-> PyNone, geo |-> PyNone, event_class |-> PyNone, categories |-> PyNone,
     transparency |-> PyNone, url |-> PyNone]

\* the event with every optional field given
Detailed(event) ==
    [event EXCEPT !.description = PyStr(Repeated("U+00E9", 40)),
                  !.organizer = PyStr(<<"o">>), !.status = Member(<<"C", "O", "N", "F", "I", "R", "M", "E", "D">>),
                  !.location = PyStr(Repeated("a", 80)),
                  !.geo = <<PyFloat(465), PyFloat(-71)>>,
                  !.event_class = Member(<<"P", "U", "B", "L", "I", "C">>),
                  !.categories = <<<<"p", ",", "q">>, <<"r">>>>,
                  !.transparency = Member(<<"O", "P", "A", "Q", "U", "E">>), !.url = PyStr(<<"w">>)]

EventInputs ==
    {[self |-> e, utcnow |-> Datetime(2024, 5, 15, 12, 0, 0, PyNone), local_offset |-> off] :
        e \in UNION {{VEvent(start, end, dtstamp), Detailed(VEvent(start, end, dtstamp))} :
                        start \in EventTimes,
                        end \in {Datetime(2024, 5, 11, 1, 0, 0, tzinfo) :
                                    tzinfo \in {PyNone, PyInt(120)}},
                        dtstamp \in {PyNone, Datetime(2024, 5, 12, 8, 0, 0, PyInt(120)),
                                     Datetime(2024, 5, 12, 8, 0, 0, PyNone)}},
        off \in {0, 120, -300}}

EventCalls ==
    {Drawn("fold_icalendar_line", a) : a \in FoldInputs}
        \cup {Drawn("VEvent.make_qr_code_data", a) : a \in EventInputs}

InitEvent ==
    /\ InitProcess({PyNone})
    /\ call \in EventCalls
    /\ url = PyNone /\ http = PyNone /\ cache = <<>>
    /\ tok = NoToken /\ NoDecision
    /\ kwargs = <<>> /\ options = Pending /\ via = "QRCodeOptions"

\* fold_icalendar_line(f"NAME:{escape_char(value)}")
FoldLine ==
    /\ Drawing("fold_icalendar_line")
    /\ Returns(PyStr(fold_icalendar_line(ContentLine(call.args.name, call.args.values))))

VEventData ==
    /\ Drawing("VEvent.make_qr_code_data")
    /\ Returns(VEvent_make_qr_code_data(call.args.self, call.args.utcnow,
                                        call.args.local_offset))

NextEvent == FoldLine \/ VEventData

SpecEvent == InitEvent /\ [][NextEvent]_vars

-----------------------------------------------------------------------------
(* Claims about QRCodeOptions *)

Built == options # Pending
BuiltOptions == Built /\ ~IsRaise(options)

\* the names a caller may use: the arguments of __init__ and, in a request, the
\* parameters the view removes before the construction
RecognizedNames ==
    IF via = "request"
    THEN OptionNames \cup {"bytes", "text", "int", "token", "cache_enabled"}
    ELSE OptionNames

Given(name) == name \in DOMAIN kwargs

\* the integer a value denotes, when it is an integer or a digit string
DenotesInt(v) == v.t = "int" \/ (v.t = "str" /\ IsDigit(v.s))
Denoted(v) == IF v.t = "int" THEN v.n ELSE StrToNat(v.s)

VersionInRange(v) == DenotesInt(v) /\ Denoted(v) >= 1 /\ Denoted(v) <= 40
FormatInDomain(v) == v.t = "str" /\ Lower(v.s) \in {s_svg, s_png}
ErrorCorrectionInDomain(v) ==
    v.t = "str" /\ Lower(v.s) \in {<<"l">>, <<"m">>, <<"q">>, <<"h">>}
BorderInDomain(v) == v.t = "int" \/ (v.t = "str" /\ IsIntLiteral(v.s))

\* C8 (as claimed): a construction raises only for an unrecognized argument
\* name; with recognized names it does not raise, and a border, version,
\* image_format or error_correction outside its domain is replaced by the default.
C8_RaisesOnlyOnUnknownName ==
    (Built /\ DOMAIN kwargs \subseteq RecognizedNames) =>
        /\ ~IsRaise(options)
        /\ (Given("border") /\ ~BorderInDomain(kwargs["border"]))
                => options.border = PyInt(4)
        /\ (Given("version") /\ ~VersionInRange(kwargs["version"])
              /\ ~IsMicroTag(kwargs["version"])) => options.version = PyNone
        /\ (Given("image_format") /\ ~FormatInDomain(kwargs["image_format"]))
                => options.image_format = PyStr(s_svg)
        /\ (Given("error_correction")
              /\ ~ErrorCorrectionInDomain(kwargs["error_correction"]))
                => options.error_correction = PyStr(s_m)

\* the scale the size table and the coercion rule give for a size
ClaimedScale(size) ==
    IF size.t = "str" /\ Lower(size.s) = <<"t">> THEN 6
    ELSE IF size.t = "str" /\ Lower(size.s) = <<"s">> THEN 12
    ELSE IF size.t = "str" /\ Lower(size.s) = <<"m">> THEN 18
    ELSE IF size.t = "str" /\ Lower(size.s) = <<"l">> THEN 30
    ELSE IF size.t = "str" /\ Lower(size.s) = <<"h">> THEN 48
    ELSE IF DenotesInt(size) /\ Denoted(size) >= 1 THEN Denoted(size)
    ELSE 18

\* C9 (as claimed): the module scale is 6/12/18/30/48 for the aliases in
\* either case, the number itself for integers and digit strings >= 1, and 18
\* for every other size (None, empty, unrecognized name, zero, negative); it is
\* the scale kw_save passes on (divided by 10 as a Decimal for SVG).
C9_SizeCoercion ==
    (BuiltOptions /\ options.size.t # "float") =>
        /\ _size_as_number(options) = PyInt(ClaimedScale(options.size))
        /\ ~IsRaise(kw_save(options))
        /\ kw_save(options).scale =
             IF options.image_format = PyStr(s_svg)
             THEN [t |-> "Decimal", of |-> PyInt(ClaimedScale(options.size)), div |-> 10]
             ELSE PyInt(ClaimedScale(options.size))

\* the micro argument as the caller passed it (False when not passed)
PassedMicro ==
    IF ~Given("micro") THEN FALSE
    ELSE IF kwargs["micro"].t = "bool" THEN kwargs["micro"].b
    ELSE ParseInt(kwargs["micro"].s) = 1

\* C10 (as claimed): a version in 1..40 (integer or digit string) is kept as
\* that integer; a micro tag M1..M4 in either case is kept and forces micro =
\* True; every other value (out of range, negative, non-numeric) becomes None
\* and forces micro = False.
C10_VersionCoercion ==
    (BuiltOptions /\ Given("version") /\ kwargs["version"] # PyNone) =>
        LET v == kwargs["version"] IN
        IF VersionInRange(v) THEN options.version = PyInt(Denoted(v))
        ELSE IF IsMicroTag(v)
             THEN /\ options.version.t = "str"
                  /\ Lower(options.version.s) = Lower(v.s)
                  /\ options.micro = PyBool(TRUE)
        ELSE options.version = PyNone /\ options.micro = PyBool(FALSE)

\* C10 (amended): a version in 1..40 is kept as that integer, a micro tag is
\* stored in lower case and forces micro = True, every other value becomes
\* None; unless the version is a micro tag, micro stays what the caller passed.
C10_VersionCoercionAmended ==
    (BuiltOptions /\ Given("version")) =>
        LET v == kwargs["version"] IN
        IF VersionInRange(v)
        THEN options.version = PyInt(Denoted(v)) /\ options.micro = PyBool(PassedMicro)
        ELSE IF IsMicroTag(v)
             THEN options.version = PyStr(Lower(v.s)) /\ options.micro = PyBool(TRUE)
        ELSE options.version = PyNone /\ options.micro = PyBool(PassedMicro)

\* an out-of-range version given together with micro = True: the version is
\* dropped and micro is still True
C10_Witness ==
    /\ BuiltOptions
    /\ Given("version") /\ kwargs["version"] = PyInt(41)
    /\ Given("micro") /\ PassedMicro
    /\ options.version = PyNone
    /\ options.micro = PyBool(TRUE)


-----------------------------------------------------------------------------
(* Claims about the tokens *)

Checked == tok # NoToken /\ tok.verdict # Pending
Untouched == tok.tamper = "none"
SameSigning == tok.issued.key = tok.checked.key /\ tok.issued.salt = tok.checked.salt
SameProcess == tok.issued.process = tok.checked.process
Denied == IsRaise(tok.verdict) /\ tok.verdict.exc = "PermissionDenied"

\* what of the options is written into the token
TokenFields(o) ==
    <<PyStrOf(o.size), o.border, o.version, o.image_format, o.error_correction>>

\* C3: the token issued for the options A is accepted when checked against
\* the same options, in the same process and with the signing key and the
\* signing salt unchanged.
C3_RoundTrip ==
    (Checked /\ Untouched /\ tok.B = tok.A /\ SameProcess /\ SameSigning)
        => tok.verdict = Granted

\* a token for a float size, whose text holds a dot, issued and accepted
C3_Witness ==
    /\ Checked /\ Untouched /\ tok.B = tok.A /\ SameProcess /\ SameSigning
    /\ tok.A.size = PyFloat(21)
    /\ tok.verdict = Granted

\* C4 (as claimed): the token issued for the options A is rejected when
\* checked against any options B that differ from A.
C4_RejectedForOtherOptions ==
    (Checked /\ Untouched /\ tok.B # tok.A) => Denied

\* C4 (amended): the token issued for A is rejected when checked against any
\* options B whose size as text, border, version, image_format or
\* error_correction differs from that of A.
C4_RejectedForOtherTokenFields ==
    (Checked /\ Untouched /\ TokenFields(tok.B) # TokenFields(tok.A)) => Denied

\* the token of a size 10 URL used on a size 8 URL, signature intact
C4_Witness ==
    /\ Checked /\ Untouched /\ SameProcess /\ SameSigning
    /\ tok.A.size = PyInt(10) /\ tok.B.size = PyInt(8)
    /\ tok.verdict = PermissionDenied("Request query does not match protection token.")

-----------------------------------------------------------------------------
(* Claims about the access policy *)

Decided == decision # PyNone /\ decision.allows # Pending

\* the policy as the settings give it, or nothing
PolicyIsSet ==
    /\ settings.QR_CODE_URL_PROTECTION.t = "Mapping"
    /\ "ALLOWS_EXTERNAL_REQUESTS_FOR_REGISTERED_USER" \in DOMAIN settings.QR_CODE_URL_PROTECTION.m

PolicyFlag == settings.QR_CODE_URL_PROTECTION.m["ALLOWS_EXTERNAL_REQUESTS_FOR_REGISTERED_USER"]

\* the cases the claim speaks of: no policy, False, True, a callable
PolicyIsCovered ==
    ~PolicyIsSet \/ PolicyFlag \in {PyBool(FALSE), PyBool(TRUE)} \/ PolicyFlag.t = "callable"

\* what the claim says of the user u
ClaimedDecision(u) ==
    IF ~PolicyIsSet \/ PolicyFlag = PyBool(FALSE) THEN FALSE
    ELSE IF PolicyFlag = PyBool(TRUE)
         THEN u # PyNone /\ u.pk # PyNone /\ u.is_authenticated
         ELSE PolicyFlag.f[IF u = PyNone THEN AnonymousUser ELSE u]

\* C6: allows_external_request_from_user(user) is false for every user when
\* the policy is absent or False; for the literal True it is truthy exactly
\* for the users that have a primary key and are authenticated; for a callable
\* it is what the callable answers for the user (AnonymousUser for None); and
\* requires_url_protection_token(user) is the negation of it.
C6_AccessPolicy ==
    (Decided /\ PolicyIsCovered) =>
        /\ Truthy(decision.allows) = ClaimedDecision(decision.user)
        /\ decision.requires = PyBool(~Truthy(decision.allows))

\* the literal True lets a registered user in and asks no token of that user
C6_Witness ==
    /\ Decided
    /\ PolicyIsSet /\ PolicyFlag = PyBool(TRUE)
    /\ decision.user = User(PyInt(1))
    /\ Truthy(decision.allows)
    /\ decision.requires = PyBool(FALSE)

-----------------------------------------------------------------------------
(* Claims about the view *)

Served == http # PyNone

HasToken(GET) == "token" \in DOMAIN GET

Unconditional == http.request.headers = NoHeaders

\* C1: a request that carries no token and whose user the policy does not
\* allow is denied (403), and the URL make_qr_code_url builds with a token is
\* served (200), for the payloads, options, cache_enabled values and users of
\* the requests (stated for the requests without conditional headers).
C1_DeniedOrServed ==
    (Served /\ Unconditional) =>
        /\ (~HasToken(http.request.GET) /\ ~http.policy_allows)
              => http.response.status = 403
        /\ (url.built # Pending /\ HasToken(url.built) /\ http.request.GET = url.built)
              => http.response.status = 200

\* C2: a request that carries a token parameter, the empty string included,
\* is granted only if the token verifies against the options of the request,
\* and is denied (403) otherwise, whatever the policy says of its user
\* (stated for the requests without conditional headers).
C2_TokenMustVerify ==
    (Served /\ Unconditional /\ HasToken(http.request.GET)) =>
        /\ http.response.status = 200 => http.token_verifies
        /\ ~http.token_verifies => http.response.status = 403

\* the random token of the URL built
SaltOf(GET) == LastSegment(SignedValue(GET["token"].s), ".")

-----------------------------------------------------------------------------
(* Claims about the embedded codes and their cache *)

EmbedCalled == call # PyNone /\ call.op = "get_or_make_cached_embedded_qr_code"

\* what make_embedded_qr_code returns for the arguments a
Markup(a) ==
    make_embedded_qr_code(a.data, QRCodeOptions(a.kw), a.force_text,
                          a.use_data_uri_for_svg, a.alt_text, a.class_names)

\* the cache key of the arguments a
KeyOfCall(a) ==
    EmbeddedCacheKey(settings, RANDOM_TOKEN, a.data, QRCodeOptions(a.kw), a.force_text,
                     a.use_data_uri_for_svg)

\* two calls that render the same element
SameRendering(a, b) == ~IsRaise(Markup(a)) /\ Markup(a) = Markup(b)

\* the texts of the options as QRCodeOptions stores them
OptionTexts(o) ==
    [n \in PlainOptionNames \cup FlagNames \cup {"encoding"} |-> PyStrOf(o[n])]

\* two calls that agree on the mode, the data URI flag, the text of the data
\* and the text of every stored option
SameOptionText(a, b) ==
    /\ a.force_text = b.force_text
    /\ a.use_data_uri_for_svg = b.use_data_uri_for_svg
    /\ (a.data = b.data \/ (a.force_text /\ force_str(a.data) = force_str(b.data)))
    /\ OptionTexts(QRCodeOptions(a.kw)) = OptionTexts(QRCodeOptions(b.kw))
    /\ QRCodeOptions(a.kw).colors = QRCodeOptions(b.kw).colors

C12_CachedEqualsMade ==
    (EmbedCalled /\ Truthy(settings.QR_CODE_CACHE_ALIAS)) => call.result = Markup(call.args)

-----------------------------------------------------------------------------
(* Claims about the URL of the image *)

UrlOptions == QRCodeOptions(url.args.kw)

\* the value of the option n as the options o store it
StoredOption(o, n) == IF n \in ColorNames THEN o.colors[n] ELSE o[n]

\* C13: the query make_qr_code_url builds has a parameter for a rendering
\* option only if the value of the option differs from its default.
C13_OnlyNonDefaultSerialized ==
    url.built # Pending =>
        \A n \in OptionNames \cap DOMAIN url.built :
            StoredOption(UrlOptions, n) # StoredOption(QRCodeOptions(<<>>), n)

PayloadDecoded == call # PyNone /\ call.op = "serve_qr_code_image"

\* the parameter the payload is claimed to travel in
ClaimedParameter(a) ==
    IF a.force_text THEN "text"
    ELSE IF a.data.t \in {"int", "bool"} THEN "int" ELSE "bytes"

\* the payload as make_qr encodes it: its text in text mode, itself otherwise
EncodedPayload(a) == IF a.force_text THEN PyStr(StrOfData(a.data)) ELSE a.data

\* C14: the URL has exactly one of the parameters text, int and bytes, chosen by
\* force_text and the type of the data, and the view decodes it back to the
\* payload (value and type) and the force_text mode given to make_qr_code_url.
C14_PayloadRoundTrip ==
    PayloadDecoded =>
        /\ {"text", "int", "bytes"} \cap DOMAIN call.GET = {ClaimedParameter(url.args)}
        /\ call.decoded = [t |-> "data", data |-> EncodedPayload(url.args),
                           force_text |-> url.args.force_text]

-----------------------------------------------------------------------------
(* Claims about the payload of a request *)

\* the request served passed check_image_access_permission
PassedAccessControl ==
    IF HasToken(http.request.GET) /\ Truthy(http.request.GET["token"])
    THEN http.token_verifies ELSE http.policy_allows

\* the payload parameter of the request served cannot be decoded
Undecodable == IsRaise(RequestData(http.request.GET))

\* C15: a request that passes access control and whose text, bytes or int
\* parameter cannot be decoded fails with SuspiciousOperation (400) and with
\* no other kind of error.
C15_UndecodableIsSuspicious ==
    (Served /\ Unconditional /\ PassedAccessControl /\ Undecodable) =>
        /\ http.response.status = 400
        /\ http.response.content.exc = "SuspiciousOperation"

-----------------------------------------------------------------------------
(* Claims about the texts for applications *)

\* the call of op drawn has been made
Made(op) == call.op = op /\ call.result # Pending

\* s with one backslash put before every special character, in one pass
RECURSIVE EscapedOnce(_)
EscapedOnce(s) ==
    IF s = <<>> THEN <<>>
    ELSE (IF Head(s) \in {"\\", "\"", ";", ",", ":"} THEN <<"\\", Head(s)>>
          ELSE <<Head(s)>>) \o EscapedOnce(Tail(s))

\* C16: _escape_mecard_special_chars(s) is s with every backslash, double
\* quote, semicolon, comma and colon preceded by exactly one backslash and
\* every other character unchanged (the backslashes it introduces are not
\* escaped again); None and the empty string are returned unchanged.
C16_EscapedOnce ==
    Made("_escape_mecard_special_chars") =>
        IF call.args \in {PyNone, PyStr(s_empty)} THEN call.result = call.args
        ELSE call.result = PyStr(EscapedOnce(call.args.s))

C16_Witness ==
    /\ Made("_escape_mecard_special_chars")
    /\ call.args = PyStr(<<"\\", ";", "a">>)
    /\ call.result = PyStr(<<"\\", "\\", "\\", ";", "a">>)

\* the number of backslashes that end s
RECURSIVE TrailingBackslashes(_)
TrailingBackslashes(s) ==
    IF s = <<>> \/ s[Len(s)] # "\\" THEN 0
    ELSE 1 + TrailingBackslashes(SubSeq(s, 1, Len(s) - 1))

\* the positions of the semicolons of s that no backslash escapes
UnescapedSemicolons(s) ==
    {i \in 1..Len(s) : s[i] = ";" /\ TrailingBackslashes(SubSeq(s, 1, i - 1)) % 2 = 0}

\* the fields a contact gives: the name and the reading, each given by its
\* first or its last part, and the other fields that are not empty
FieldsGiven(c) ==
    {f \in ContactDetailFields
             \ {"first_name", "last_name", "first_name_reading", "last_name_reading"} :
        Truthy(c[f])}
        \cup {f \in {"N"} : Truthy(c.first_name) \/ Truthy(c.last_name)}
        \cup {f \in {"SOUND"} : Truthy(c.first_name_reading) \/ Truthy(c.last_name_reading)}

\* C17: in the text of ContactDetail.make_qr_code_data no input introduces an
\* unescaped semicolon: the semicolons that are not escaped are the ends of
\* the fields given and the end of the text, one each.
C17_OneSemicolonPerField ==
    Made("ContactDetail.make_qr_code_data") =>
        Cardinality(UnescapedSemicolons(call.result.s))
            = Cardinality(FieldsGiven(call.args)) + 1

DataMakers ==
    {"ContactDetail.make_qr_code_data", "MeCard.make_qr_code_data",
     "WifiConfig.make_qr_code_data"}

EndsWith(s, tail) ==
    Len(s) >= Len(tail) /\ SubSeq(s, Len(s) - Len(tail) + 1, Len(s)) = tail

\* C18: every text that ContactDetail.make_qr_code_data,
\* MeCard.make_qr_code_data and WifiConfig.make_qr_code_data return ends
\* with two semicolons.
C18_EndsWithTwoSemicolons ==
    (call.op \in DataMakers /\ call.result # Pending) =>
        EndsWith(call.result.s, <<";", ";">>)

\* the text has the part somewhere
Contains(s, part) ==
    \E i \in 1..(Len(s) - Len(part) + 1) : SubSeq(s, i, i + Len(part) - 1) = part

\* C19: WifiConfig.make_qr_code_data emits no P field when the authentication
\* is nopass, whatever the password, and for WEP and WPA it emits the P field
\* with the escaped password when a password is given.
C19_PasswordOnlyWithAuthentication ==
    Made("WifiConfig.make_qr_code_data") =>
        IF call.args.authentication = AUTHENTICATION.nopass
        THEN ~Contains(call.result.s, <<"P", ":">>)
        ELSE Truthy(call.args.password) =>
                Contains(call.result.s,
                         <<";", "P", ":">> \o EscapedOnce(call.args.password.s) \o <<";">>)

-----------------------------------------------------------------------------
(* Claims about the tags for EPC codes *)

\* a tag for EPC codes has returned a code or a URL
EpcRendered ==
    /\ call.op \in {"qr_for_epc", "qr_url_for_epc"}
    /\ call.result # Pending
    /\ ~("t" \in DOMAIN call.result /\ IsRaise(call.result))

\* the keywords the encoder is called with: those of the code embedded, or
\* those the view makes of the URL
EncoderKeywords ==
    IF call.op = "qr_for_epc" THEN call.result.src.qr.make
    ELSE kw_make(get_qr_code_option_from_request(call.result))

\* C20: qr_for_epc and qr_url_for_epc render with the error correction 'M'
\* (the options keep the level in lower case) and boost_error False, whatever
\* rendering arguments are given, as keyword arguments or as
\* options=QRCodeOptions(...).
C20_EpcErrorCorrection ==
    EpcRendered =>
        /\ Lower(EncoderKeywords.error.s) = <<"m">>
        /\ EncoderKeywords.boost_error = PyBool(FALSE)

-----------------------------------------------------------------------------
(* Claims about the calendar events *)

\* C21: every line of the text of VEvent.make_qr_code_data is separated from
\* the next by CRLF: no line feed stands without a carriage return before it.
C21_LinesEndWithCRLF ==
    Made("VEvent.make_qr_code_data") =>
        \A i \in 1..Len(call.result.s) :
            call.result.s[i] = "\n" => (i > 1 /\ call.result.s[i - 1] = "\r")

\* the positions where a CRLF starts
LineBreaks(text) ==
    {i \in 1..(Len(text) - 1) : text[i] = "\r" /\ text[i + 1] = "\n"}

\* the physical line of text that starts at position a
PhysicalLine(text, a) ==
    SubSeq(text, a,
           IF \E q \in LineBreaks(text) : q >= a
           THEN (CHOOSE q \in LineBreaks(text) :
                    q >= a /\ \A r \in LineBreaks(text) : r >= a => q <= r) - 1
           ELSE Len(text))

LineWithin(text, a, octets) == Octets(PhysicalLine(text, a)) <= octets

\* the text is folded: its first line and the lines after its line breaks
\* have at most 75 octets, and a blank follows every line break
Folded(text) ==
    /\ LineWithin(text, 1, 75)
    /\ \A p \in LineBreaks(text) :
          /\ p + 2 <= Len(text) /\ text[p + 2] = " "
          /\ LineWithin(text, p + 2, 75)

\* C22: for the DESCRIPTION, CATEGORIES and LOCATION values, ASCII or with
\* characters of several bytes, every physical line that fold_icalendar_line
\* produces has at most 75 octets in UTF-8 without the line break, and every
\* continuation line starts with CRLF and one blank. (The function folds
\* between the characters of a str, hence never within a character.)
C22_FoldedWithin75Octets ==
    Made("fold_icalendar_line") => Folded(call.result.s)

C22_Witness ==
    /\ Made("fold_icalendar_line")
    /\ ~IsAscii(call.result.s)
    /\ Cardinality(LineBreaks(call.result.s)) >= 2
    /\ \E p \in LineBreaks(call.result.s) : Octets(PhysicalLine(call.result.s, p + 2)) = 75

\* position i of text is within a fold marker, CRLF and a blank
InFoldMarker(text, i) ==
    \E p \in {i - 2, i - 1, i} \cap LineBreaks(text) : p + 2 <= Len(text) /\ text[p + 2] = " "

\* the text without its fold markers
Unfolded(text) ==
    Joined([i \in 1..Len(text) |-> IF InFoldMarker(text, i) THEN <<>> ELSE <<text[i]>>])

\* C23: removing every fold marker (CRLF and one blank) from what
\* fold_icalendar_line returns for an escaped DESCRIPTION, CATEGORIES or
\* LOCATION content line gives the content line back.
C23_UnfoldGivesLine ==
    Made("fold_icalendar_line") =>
        Unfolded(call.result.s) = ContentLine(call.args.name, call.args.values)

C23_Witness ==
    /\ Made("fold_icalendar_line")
    /\ \E i \in 1..Len(call.args.values[1]) : call.args.values[1][i] \in {";", " "}
    /\ LineBreaks(call.result.s) # {}
    /\ Len(call.result.s) > Len(ContentLine(call.args.name, call.args.values))

\* the text of t as the claim gives it: the fields of a naive t, and for an
\* aware t the fields of the same instant at UTC followed by Z
WrittenAs(t, text) ==
    IF t.tzinfo = PyNone THEN text = strftime_YmdTHMS(t)
    ELSE \E d \in {t.d - 1, t.d, t.d + 1}, H \in 0..23, M \in 0..59 :
            /\ (d * 24 + H) * 60 + M + t.tzinfo.n = (t.d * 24 + t.H) * 60 + t.M
            /\ text = strftime_YmdTHMS([t EXCEPT !.d = d, !.H = H, !.M = M]) \o <<"Z">>

\* the value of the line of the property in the text of the event
RECURSIVE UpToLineFeed(_, _)
UpToLineFeed(text, i) ==
    IF i > Len(text) \/ text[i] = "\n" THEN <<>> ELSE <<text[i]>> \o UpToLineFeed(text, i + 1)

ValueOf(text, name) ==
    UpToLineFeed(text,
                 (CHOOSE i \in 1..Len(text) :
                     SubSeq(text, i, i + Len(name) + 1) = <<"\n">> \o name \o <<":">>)
                     + Len(name) + 2)

\* C24: in the text of a VEvent an aware start or end is converted to UTC and
\* written as YYYYMMDDTHHMMSSZ, and a naive start or end is written as
\* YYYYMMDDTHHMMSS with its fields unchanged and no zone marker.
C24_StartAndEndWritten ==
    Made("VEvent.make_qr_code_data") =>
        /\ WrittenAs(call.args.self.start, ValueOf(call.result.s, <<"D", "T", "S", "T", "A", "R", "T">>))
        /\ WrittenAs(call.args.self.end, ValueOf(call.result.s, <<"D", "T", "E", "N", "D">>))

C24_Witness ==
    /\ Made("VEvent.make_qr_code_data")
    /\ call.args.self.start = Datetime(2024, 5, 10, 0, 30, 5, PyInt(120))
    /\ ValueOf(call.result.s, <<"D", "T", "S", "T", "A", "R", "T">>) = <<"2", "0", "2", "4", "0", "5", "0", "9", "T", "2", "2", "3", "0", "0", "5", "Z">>
    /\ call.args.self.end.tzinfo = PyNone

-----------------------------------------------------------------------------
(* Claims about the markup of the embedded codes *)

\* the characters that end an attribute value or open an element
MarkupChars == {"<", ">", "\"", "'"}

\* the value of the class attribute of the element: what stands between the
\* quotes of class="..."
ClassValue(element) == SubSeq(element.class_attr, 9, Len(element.class_attr) - 1)

\* an <img> element came out of make_embedded_qr_code
ImgMade ==
    /\ call # PyNone /\ call.op = "make_embedded_qr_code"
    /\ ~IsRaise(call.result) /\ call.result.t = "img"

\* C26: in the markup of make_embedded_qr_code every text of the caller that
\* stands in an attribute, the alt text (given or derived from the data) and
\* the class names, is HTML-escaped: none of the characters < > " ' stands in
\* the value of alt or of class.
C26_AttributesEscaped ==
    ImgMade =>
        /\ \A i \in 1..Len(call.result.alt) : call.result.alt[i] \notin MarkupChars
        /\ \A i \in 1..Len(ClassValue(call.result)) :
              ClassValue(call.result)[i] \notin MarkupChars

-----------------------------------------------------------------------------
(* Claims about the cache and the conditional requests of the view *)

\* C27: with the cache enabled, in every sequence of requests (of different
\* users, with different tokens, the policy changing between them) a request
\* is answered 200 only if it satisfies the access rule itself when it is
\* served, be the response computed or taken from the cache.
C27_ServedOnlyIfAllowed ==
    (Served /\ http.response.status = 200) => PassedAccessControl

\* C28: the access check runs before any response is chosen: a request that
\* fails the access rule is answered 403 whatever conditional headers it
\* carries, and never 304 for an If-None-Match or If-Modified-Since that
\* matches (stated for the responses not taken from the cache, which C27 is
\* about).
C28_DeniedBeforeNotModified ==
    (Served /\ ~PassedAccessControl /\ http.response.by # "cache") =>
        /\ http.response.status # 304
        /\ http.response.status = 403

-----------------------------------------------------------------------------
(* Claims about what the token depends on *)

\* the size, border, version, image format and error correction of a query
SizedQueries ==
    {<<>>, "size" :> PyStr(<<"1", "0">>), "size" :> PyStr(<<"8">>), "size" :> PyStr(<<"M">>),
     "size" :> PyStr(<<"2", "1", ".", "0">>), "border" :> PyStr(<<"1">>),
     "version" :> PyStr(<<"2">>), "image_format" :> PyStr(s_png),
     "error_correction" :> PyStr(<<"h">>)}

\* the payload, the flags, the encoding and the colors of a query
OtherParameters ==
    {<<>>,
     ("text" :> PyStr(<<"a", "G", "k", "=">>)) @@ ("micro" :> PyStr(<<"1">>))
        @@ ("eci" :> PyStr(<<"1">>)) @@ ("boost_error" :> PyStr(<<"1">>)),
     ("int" :> PyStr(<<"7">>)) @@ ("encoding" :> PyStr(<<"iso-8859-1">>))
        @@ ("dark_color" :> PyStr(<<"r", "e", "d">>))
        @@ ("light_color" :> PyStr(<<"N", "o", "n", "e">>))}

\* the options the view makes of the queries
OptionsOfRequests ==
    {get_qr_code_option_from_request(q @@ p) : q \in SizedQueries, p \in OtherParameters}

\* for the options a token is checked against, the options of the requests
\* that agree with them on the five fields
AgreeingWith ==
    [o \in TokenOptions |-> {r \in OptionsOfRequests : TokenFields(r) = TokenFields(o)}]

AgreeingOptions(o) == AgreeingWith[o]

\* the token as it was received at the check
ReceivedToken == Received(tok.tamper, tok.token.s, tok.B)

\* the check of the token gives the verdict of the state for all the options
VerdictOfAll(requested, token) ==
    \A r \in requested :
        check_url_signature_token(settings, RANDOM_TOKEN, r, token) = tok.verdict

\* C29: the signed token depends on the size, the border, the version, the
\* image format and the error correction only (and on the salt of the
\* process): a token that verifies for a request verifies for every request
\* that agrees with it on these five fields, and one that does not verify
\* verifies for none, whatever the payload, micro, eci, boost_error, the
\* encoding and the colors.
C29_TokenOfFiveFields == Checked => VerdictOfAll(AgreeingOptions(tok.B), ReceivedToken)

\* a token issued for a micro code is accepted for requests that differ in
\* the payload, the flags, the encoding and the colors
C29_Witness ==
    /\ Checked /\ Untouched
    /\ tok.verdict = Granted
    /\ tok.A.micro = PyBool(TRUE) /\ tok.B.micro = PyBool(FALSE)
    /\ \E r \in AgreeingOptions(tok.B) : r.eci = PyBool(TRUE)
    /\ \E r \in AgreeingOptions(tok.B) : r.colors.dark_color = PyStr(<<"r", "e", "d">>)
    /\ Cardinality(AgreeingOptions(tok.B)) >= 3

-----------------------------------------------------------------------------
(* Claims about the options of the URL *)

\* C30: the options get_qr_code_option_from_request rebuilds from the URL
\* make_qr_code_url builds for the options o give the same kw_make() and the
\* same kw_save() as o, sizes that are floats and colors set to None included.
C30_OptionsRoundTrip ==
    PayloadDecoded =>
        /\ ~IsRaise(call.options)
        /\ kw_make(call.options) = kw_make(UrlOptions)
        /\ kw_save(call.options) = kw_save(UrlOptions)

====
